---- MODULE Spec2Model ----
(***************************************************************************)
(* Model of the journal subsystem of the mental-health application:        *)
(* client-side encryption of journal notes (App.jsx, "Journal Context"),   *)
(* the journal editor and the entry display, and the mock authentication.  *)
(*                                                                         *)
(* Strings are sequences of UTF-16 code units, buffers are sequences of    *)
(* bytes, base64 text is a sequence of code units of the base64 alphabet.  *)
(***************************************************************************)
EXTENDS Integers, Sequences, FiniteSets, TLC

(***************************************************************************)
(* Bounds of the model.                                                    *)
(***************************************************************************)
MaxCalls == 2
MaxStored == 1
MaxPending == 2
MaxRequests == 2
MaxTail == 3
MaxPushes == 3
MaxCompletions == 1
\* the doubles between one millisecond of Date.now() and the next (4096 at
\* today's dates)
Ulps == 2

(***************************************************************************)
(* Values.                                                                 *)
(***************************************************************************)
\* null, undefined and a thrown exception, as values distinct from every
\* string and every buffer (whose elements are never negative)
Null == <<-3>>
Undefined == <<-2>>
Failure == <<-1>>

\* the errors thrown by addEntry and decryptNote, as values of the same kind
NoError == <<>>
PassphraseRequiredForEncryption == <<-10>>
PassphraseRequiredToDecrypt == <<-11>>
\* the rejection of encryptText: crypto.subtle missing, deriveKey or encrypt
\* rejecting
EncryptionFailed == <<-12>>

IsHigh(c) == c >= 55296 /\ c <= 56319
IsLow(c) == c >= 56320 /\ c <= 57343

(***************************************************************************)
(* strToBuf: TextEncoder.encode. UTF-8 of the string; a surrogate pair is  *)
(* one code point of four bytes, an unpaired surrogate is encoded as       *)
(* U+FFFD.                                                                 *)
(***************************************************************************)
EncodeCodePoint(cp) ==
  IF cp < 128 THEN <<cp>>
  ELSE IF cp < 2048 THEN <<192 + (cp \div 64), 128 + (cp % 64)>>
  ELSE IF cp < 65536 THEN
    <<224 + (cp \div 4096), 128 + ((cp \div 64) % 64), 128 + (cp % 64)>>
  ELSE <<240 + (cp \div 262144), 128 + ((cp \div 4096) % 64),
         128 + ((cp \div 64) % 64), 128 + (cp % 64)>>

RECURSIVE strToBuf(_)
strToBuf(s) ==
  IF s = <<>> THEN <<>>
  ELSE IF IsHigh(s[1]) /\ Len(s) >= 2 /\ IsLow(s[2]) THEN
    EncodeCodePoint(65536 + (s[1] - 55296) * 1024 + (s[2] - 56320))
      \o strToBuf(SubSeq(s, 3, Len(s)))
  ELSE IF IsHigh(s[1]) \/ IsLow(s[1]) THEN
    EncodeCodePoint(65533) \o strToBuf(Tail(s))
  ELSE EncodeCodePoint(s[1]) \o strToBuf(Tail(s))

(***************************************************************************)
(* bufToStr: new TextDecoder().decode. UTF-8 decoding with replacement of  *)
(* malformed bytes by U+FFFD; with the default options (ignoreBOM false) a *)
(* leading byte order mark EF BB BF is consumed and not output.            *)
(***************************************************************************)
IsCont(b) == b >= 128 /\ b <= 191

CodeUnits(cp) ==
  IF cp < 65536 THEN <<cp>>
  ELSE <<55296 + ((cp - 65536) \div 1024), 56320 + ((cp - 65536) % 1024)>>

RECURSIVE Utf8Decode(_)
Utf8Decode(b) ==
  IF b = <<>> THEN <<>>
  ELSE IF b[1] < 128 THEN <<b[1]>> \o Utf8Decode(Tail(b))
  ELSE IF b[1] >= 194 /\ b[1] <= 223 /\ Len(b) >= 2 /\ IsCont(b[2]) THEN
    CodeUnits((b[1] - 192) * 64 + (b[2] - 128)) \o Utf8Decode(SubSeq(b, 3, Len(b)))
  ELSE IF b[1] >= 224 /\ b[1] <= 239 /\ Len(b) >= 3 /\ IsCont(b[2]) /\ IsCont(b[3])
          /\ (b[1] - 224) * 4096 + (b[2] - 128) * 64 + (b[3] - 128) >= 2048
          /\ ~ IsHigh((b[1] - 224) * 4096 + (b[2] - 128) * 64 + (b[3] - 128))
          /\ ~ IsLow((b[1] - 224) * 4096 + (b[2] - 128) * 64 + (b[3] - 128)) THEN
    CodeUnits((b[1] - 224) * 4096 + (b[2] - 128) * 64 + (b[3] - 128))
      \o Utf8Decode(SubSeq(b, 4, Len(b)))
  ELSE IF b[1] >= 240 /\ b[1] <= 244 /\ Len(b) >= 4
          /\ IsCont(b[2]) /\ IsCont(b[3]) /\ IsCont(b[4])
          /\ (b[1] - 240) * 262144 + (b[2] - 128) * 4096 + (b[3] - 128) * 64
               + (b[4] - 128) >= 65536
          /\ (b[1] - 240) * 262144 + (b[2] - 128) * 4096 + (b[3] - 128) * 64
               + (b[4] - 128) <= 1114111 THEN
    CodeUnits((b[1] - 240) * 262144 + (b[2] - 128) * 4096 + (b[3] - 128) * 64
                + (b[4] - 128))
      \o Utf8Decode(SubSeq(b, 5, Len(b)))
  ELSE <<65533>> \o Utf8Decode(Tail(b))

bufToStr(b) ==
  IF Len(b) >= 3 /\ SubSeq(b, 1, 3) = <<239, 187, 191>>
  THEN Utf8Decode(SubSeq(b, 4, Len(b)))
  ELSE Utf8Decode(b)

(***************************************************************************)
(* bufToB64 / b64ToBuf: btoa and atob. Base64 text is a sequence of the    *)
(* alphabet's indices 0..63, with Pad for '='; any other code is a         *)
(* character outside the alphabet.                                         *)
(***************************************************************************)
Pad == 64

RECURSIVE bufToB64(_)
bufToB64(buf) ==
  IF buf = <<>> THEN <<>>
  ELSE IF Len(buf) = 1 THEN
    <<buf[1] \div 4, (buf[1] % 4) * 16, Pad, Pad>>
  ELSE IF Len(buf) = 2 THEN
    <<buf[1] \div 4, (buf[1] % 4) * 16 + (buf[2] \div 16), (buf[2] % 16) * 4, Pad>>
  ELSE
    <<buf[1] \div 4, (buf[1] % 4) * 16 + (buf[2] \div 16),
      (buf[2] % 16) * 4 + (buf[3] \div 64), buf[3] % 64>>
      \o bufToB64(SubSeq(buf, 4, Len(buf)))

\* atob, step 1: a text whose length is a multiple of 4 loses one or two
\* trailing '='
StripPad(t) ==
  IF Len(t) % 4 = 0 /\ Len(t) >= 2 /\ t[Len(t)] = Pad /\ t[Len(t) - 1] = Pad
  THEN SubSeq(t, 1, Len(t) - 2)
  ELSE IF Len(t) % 4 = 0 /\ Len(t) >= 1 /\ t[Len(t)] = Pad
  THEN SubSeq(t, 1, Len(t) - 1)
  ELSE t

RECURSIVE Sextets(_)
Sextets(t) ==
  IF Len(t) >= 4 THEN
    <<t[1] * 4 + (t[2] \div 16), (t[2] % 16) * 16 + (t[3] \div 4),
      (t[3] % 4) * 64 + t[4]>> \o Sextets(SubSeq(t, 5, Len(t)))
  ELSE IF Len(t) = 3 THEN
    <<t[1] * 4 + (t[2] \div 16), (t[2] % 16) * 16 + (t[3] \div 4)>>
  ELSE IF Len(t) = 2 THEN <<t[1] * 4 + (t[2] \div 16)>>
  ELSE <<>>

\* atob throws InvalidCharacterError on a length of 1 mod 4 and on any
\* character outside the alphabet
b64ToBuf(b64) ==
  LET t == StripPad(b64) IN
  IF Len(t) % 4 = 1 \/ (\E i \in 1..Len(t) : t[i] < 0 \/ t[i] > 63)
  THEN Failure
  ELSE Sextets(t)

(***************************************************************************)
(* WebCrypto. A CryptoKey is not extractable: it is the pair of the        *)
(* imported passphrase bytes and the salt it was derived with (PBKDF2 is   *)
(* deterministic). AES-GCM is an ideal authenticated cipher: the data      *)
(* bytes are masked by a key stream and followed by a tag that binds the   *)
(* plaintext, the iv and the key; decryption fails with OperationError     *)
(* unless the tag is the one of the decrypting key and iv.                 *)
(***************************************************************************)
IvLen == 12
SaltLen == 16

RECURSIVE Sum(_)
Sum(b) == IF b = <<>> THEN 0 ELSE b[1] + Sum(Tail(b))

deriveKey(passphrase, salt) == [kpw |-> strToBuf(passphrase), ksalt |-> salt]

KeyStream(key, iv) == (Sum(key.kpw) + Sum(key.ksalt) + Sum(iv)) % 256

AuthTag(key, iv, pt) ==
  <<Sum(pt) % 256>> \o iv \o <<Len(iv)>> \o key.ksalt \o <<Len(key.ksalt)>>
    \o key.kpw \o <<Len(key.kpw)>>

AesGcmEncrypt(key, iv, pt) ==
  [i \in 1..Len(pt) |-> (pt[i] + KeyStream(key, iv)) % 256] \o AuthTag(key, iv, pt)

AesGcmDecrypt(key, iv, ct) ==
  LET n == Len(ct) - Len(AuthTag(key, iv, <<>>))
      pt == [i \in 1..n |-> (ct[i] + 256 - KeyStream(key, iv)) % 256]
  IN IF n < 0 THEN Failure
     ELSE IF SubSeq(ct, n + 1, Len(ct)) = AuthTag(key, iv, pt) THEN pt
     ELSE Failure

\* (mutant for C17) the iv is a constant, the random one is not used
encryptTextFixedIv(passphrase, plaintext, iv, salt) ==
  LET fixed == [i \in 1..IvLen |-> 0]
      key == deriveKey(passphrase, salt)
      ct == AesGcmEncrypt(key, fixed, strToBuf(plaintext))
  IN [iv |-> bufToB64(fixed), salt |-> bufToB64(salt), ciphertext |-> bufToB64(ct)]

\* (mutant for C18) the salt is a constant, the random one is not used
encryptTextFixedSalt(passphrase, plaintext, iv, salt) ==
  LET fixed == [i \in 1..SaltLen |-> 0]
      key == deriveKey(passphrase, fixed)
      ct == AesGcmEncrypt(key, iv, strToBuf(plaintext))
  IN [iv |-> bufToB64(iv), salt |-> bufToB64(fixed), ciphertext |-> bufToB64(ct)]

\* encryptText; iv and salt are the values crypto.getRandomValues returned
encryptText(passphrase, plaintext, iv, salt) ==
  LET key == deriveKey(passphrase, salt)
      ct == AesGcmEncrypt(key, iv, strToBuf(plaintext))
  IN [iv |-> bufToB64(iv), salt |-> bufToB64(salt), ciphertext |-> bufToB64(ct)]

\* decryptText; Failure when any step throws (atob, decrypt)
decryptText(passphrase, enc) ==
  IF b64ToBuf(enc.salt) = Failure \/ b64ToBuf(enc.iv) = Failure
          \/ b64ToBuf(enc.ciphertext) = Failure THEN Failure
  ELSE LET key == deriveKey(passphrase, b64ToBuf(enc.salt))
           pt == AesGcmDecrypt(key, b64ToBuf(enc.iv), b64ToBuf(enc.ciphertext))
       IN IF pt = Failure THEN Failure ELSE bufToStr(pt)

(***************************************************************************)
(* Journal entries are records; a property the object does not have reads  *)
(* as undefined. JSON.stringify drops the properties whose value is        *)
(* undefined, so storage.set followed by storage.get returns the entries   *)
(* without them.                                                           *)
(***************************************************************************)
Field(e, f) == IF f \in DOMAIN e THEN e[f] ELSE Undefined
IsEncrypted(e) == "encrypted" \in DOMAIN e /\ e.encrypted = TRUE
NoteOf(e) == Field(e, "note")

MayBeUndefined == {"note", "moodLabel"}

JsonEntry(e) ==
  [f \in {g \in DOMAIN e : ~ (g \in MayBeUndefined /\ e[g] = Undefined)} |-> e[f]]

\* the value storage.get reads back after storage.set(key, list)
JsonList(list) == [i \in 1..Len(list) |-> JsonEntry(list[i])]

storageGet(ls, key, fallback) == IF key \in DOMAIN ls THEN ls[key] ELSE fallback
\* (mutant for C24) setItem does not replace the value of an existing key
storageSetOnce(ls, key, val) == ls @@ (key :> val)

storageSet(ls, key, val) == (key :> val) @@ ls
storageRemove(ls, key) == [k \in DOMAIN ls \ {key} |-> ls[k]]

(***************************************************************************)
(* JournalProvider.addEntry and decryptNote.                               *)
(***************************************************************************)
\* entry.note || ''
NoteOrEmpty(entry) == IF NoteOf(entry) = Undefined THEN <<>> ELSE NoteOf(entry)

\* payload = { ...entry }, or { ...entry, note: undefined, encrypted: true, enc }
addEntryPayload(entry, encrypt, enc) ==
  IF encrypt
  THEN [f \in DOMAIN entry \cup {"note", "encrypted", "enc"} |->
          IF f = "note" THEN Undefined
          ELSE IF f = "encrypted" THEN TRUE
          ELSE IF f = "enc" THEN enc
          ELSE entry[f]]
  ELSE entry

\* (mutant for C5) the payload keeps the passphrase it was encrypted with
encryptedPayloadWithPassphrase(entry, pass, iv, salt) ==
  ("passphrase" :> pass)
    @@ addEntryPayload(entry, TRUE, encryptText(pass, NoteOrEmpty(entry), iv, salt))

\* the payload of addEntry(entry, true) once encryptText has resolved
encryptedPayload(entry, pass, iv, salt) ==
  addEntryPayload(entry, TRUE, encryptText(pass, NoteOrEmpty(entry), iv, salt))

\* (mutant for C8) an entry equal to a stored one is not added again
addEntryListDeduplicating(list, payload) ==
  IF \E i \in 1..Len(list) : list[i] = payload THEN list ELSE Append(list, payload)

\* list = [...entries, payload]
addEntryList(list, payload) == Append(list, payload)

UnableToDecrypt == <<85, 110, 97, 98, 108, 101, 32, 116, 111, 32, 100, 101, 99, 114, 121, 112, 116>>
Decrypting == <<68, 101, 99, 114, 121, 112, 116, 105, 110, 103, 46, 46, 46>>

\* (mutant for C11) a field that atob rejects is reported as such
MalformedData == <<77, 97, 108, 102, 111, 114, 109, 101, 100>>

decryptNoteDisclosing(entry, pass) ==
  IF ~ IsEncrypted(entry) THEN NoteOf(entry)
  ELSE IF pass = <<>> THEN PassphraseRequiredToDecrypt
  ELSE IF "enc" \notin DOMAIN entry THEN UnableToDecrypt
  ELSE IF \E f \in DOMAIN entry.enc : b64ToBuf(entry.enc[f]) = Failure THEN MalformedData
  ELSE IF decryptText(pass, entry.enc) = Failure THEN UnableToDecrypt
  ELSE decryptText(pass, entry.enc)

\* (mutant for C12) the fields are decoded before the passphrase is looked at
decryptNoteDecodingFirst(entry, pass) ==
  IF ~ IsEncrypted(entry) THEN NoteOf(entry)
  ELSE IF "enc" \notin DOMAIN entry THEN UnableToDecrypt
  ELSE IF \E f \in DOMAIN entry.enc : b64ToBuf(entry.enc[f]) = Failure THEN UnableToDecrypt
  ELSE IF pass = <<>> THEN PassphraseRequiredToDecrypt
  ELSE IF decryptText(pass, entry.enc) = Failure THEN UnableToDecrypt
  ELSE decryptText(pass, entry.enc)

\* the value decryptNote resolves to, or the error it rejects with; an entry
\* without enc makes decryptText throw on destructuring, which is caught too
decryptNote(entry, pass) ==
  IF ~ IsEncrypted(entry) THEN NoteOf(entry)
  ELSE IF pass = <<>> THEN PassphraseRequiredToDecrypt
  ELSE IF "enc" \notin DOMAIN entry THEN UnableToDecrypt
  ELSE IF decryptText(pass, entry.enc) = Failure THEN UnableToDecrypt
  ELSE decryptText(pass, entry.enc)

(***************************************************************************)
(* Inputs: the texts the user types, and the values of the random source.  *)
(***************************************************************************)
\* typed while saving: "" and "a"
NoteTexts == {<<>>, <<97>>}
Passphrases == {<<>>, <<97>>}
\* the notes of the entries displayed: "a", "a" preceded by U+FEFF, and an
\* unpaired surrogate
ViewNoteTexts == {<<97>>, <<65279, 97>>, <<55296>>}
\* typed while displaying: "", "a", an unpaired surrogate, U+FFFD
ViewPassphrases == {<<>>, <<97>>, <<55296>>, <<65533>>}
RandomBytes == {0, 255}
Ivs == {[i \in 1..IvLen |-> b] : b \in RandomBytes}
Salts == {[i \in 1..SaltLen |-> b] : b \in RandomBytes}
Paths == {"/", "/journal"}
\* the values Date.now() returns, in milliseconds
Times == {0, 1}

(***************************************************************************)
(* State.                                                                  *)
(***************************************************************************)
VARIABLES
  localStorage,  \* window.localStorage: key -> the value JSON.parse reads
  user,          \* useProvideAuth: <<>> or <<u>>
  path,          \* useHashRouter
  entries,       \* JournalProvider
  passphrase,    \* JournalProvider
  editor,        \* JournalEditor: note, encrypted, saving
  saves,         \* addEntry calls awaiting encryptText: the closure (entry, list,
                 \* pass), the random iv and salt, whether the editor that
                 \* called is still mounted (owner), and for the history the
                 \* call's number (seq) and whether no other was in flight (alone)
  calls,         \* number of addEntry calls so far
  selected,      \* JournalPage: <<>> or <<entry>>
  open,          \* JournalPage
  text,          \* EntryBody
  attempts,      \* decryptNote calls of EntryBody effects awaiting decryptText
  unhandled,     \* the error of the last rejected promise nobody handles
  now,           \* Date.now()
  db,            \* the MySQL database of the backend: table -> its rows
  requests,      \* backend handlers in flight, each at an await
  responses,     \* what the backend has answered so far
  toasts,        \* ToastProvider
  timers,        \* the setTimeout callbacks of push not yet run, oldest first
  pushes,        \* number of push calls so far
  current,       \* MultiStepForm
  form,          \* MultiStepForm
  completed,     \* the arguments of the onComplete calls of MultiStepForm
  done,          \* OnboardingPage
  finishes,      \* number of submit events on the last step so far
  hash,          \* window.location.hash, as characters (router specification)
  rendered       \* what App renders below the Navbar for that hash

journalVars == <<localStorage, user, path, entries, passphrase, editor, saves,
                 calls, selected, open, text, attempts, unhandled, now>>
backendVars == <<db, requests, responses>>
toastVars == <<toasts, timers, pushes>>
formVars == <<current, form, completed, done, finishes>>
routerVars == <<hash, rendered>>
otherVars == <<backendVars, toastVars, formVars, routerVars>>

vars == <<localStorage, user, path, entries, passphrase, editor, saves,
          calls, selected, open, text, attempts, unhandled, now,
          db, requests, responses, toasts, timers, pushes, current, form, completed,
          done, finishes,
          hash, rendered>>

(***************************************************************************)
(* Router: Route and NotFoundGuard as functions of the path, a string of   *)
(* code units.                                                             *)
(***************************************************************************)
Slash == 47
Sharp == 35

\* App's knownPaths, in the order of the array; the Route elements of App
\* have the same paths in the same order
knownPaths ==
  << <<47>>,                                            \* '/'
     <<47, 108, 111, 103, 105, 110>>,                   \* '/login'
     <<47, 115, 105, 103, 110, 117, 112>>,              \* '/signup'
     <<47, 111, 110, 98, 111, 97, 114, 100, 105, 110, 103>>,  \* '/onboarding'
     <<47, 99, 104, 101, 99, 107, 105, 110>>,           \* '/checkin'
     <<47, 100, 97, 115, 104, 98, 111, 97, 114, 100>>,  \* '/dashboard'
     <<47, 106, 111, 117, 114, 110, 97, 108>>,          \* '/journal'
     <<47, 99, 111, 109, 109, 117, 110, 105, 116, 121>>,  \* '/community'
     <<47, 99, 97, 114, 101, 103, 105, 118, 101, 114>>, \* '/caregiver'
     <<47, 97, 100, 109, 105, 110>>,                    \* '/admin'
     <<47, 99, 114, 105, 115, 105, 115>>,               \* '/crisis'
     <<47, 108, 101, 103, 97, 108>> >>                  \* '/legal'

\* the page each Route of App wraps, in the order of the Route elements
RoutePages ==
  << "LandingPage", "LoginPage", "SignupPage", "OnboardingPage", "CheckinPage",
     "DashboardPage", "JournalPage", "CommunityPage", "CaregiverPage",
     "AdminDashboard", "CrisisPage", "LegalPage" >>

\* String.prototype.replace('#', ''): the first '#' is removed
RECURSIVE RemoveFirstSharp(_)
RemoveFirstSharp(h) ==
  IF h = <<>> THEN <<>>
  ELSE IF Head(h) = Sharp THEN Tail(h)
  ELSE <<Head(h)>> \o RemoveFirstSharp(Tail(h))

\* useHashRouter: window.location.hash.replace('#', '') || '/'
PathOfHash(h) ==
  LET p == RemoveFirstSharp(h) IN IF p = <<>> THEN <<Slash>> ELSE p

\* p.replace(/\/+$/, ''): the slashes at the end are removed
RECURSIVE StripTrailingSlashes(_)
StripTrailingSlashes(p) ==
  IF p # <<>> /\ p[Len(p)] = Slash
  THEN StripTrailingSlashes(SubSeq(p, 1, Len(p) - 1))
  ELSE p

\* NotFoundGuard's norm
norm(p) ==
  IF p # <<>> /\ p[Len(p)] = Slash /\ p # <<Slash>>
  THEN StripTrailingSlashes(p)
  ELSE p

\* Route: the children are rendered when current === path
Route(routePath, page, currentPath) ==
  IF currentPath = routePath THEN {page} ELSE {}

\* NotFoundGuard: known.includes(norm(path))
NotFoundGuard(known, currentPath) ==
  IF \E i \in DOMAIN known : known[i] = norm(currentPath)
  THEN {}
  ELSE {"NotFoundPage"}

\* what App renders between the Navbar and the Footer
AppPages(currentPath) ==
  UNION {Route(knownPaths[i], RoutePages[i], currentPath) : i \in DOMAIN knownPaths}
    \cup NotFoundGuard(knownPaths, currentPath)

(***************************************************************************)
(* The state after construction of what lies outside the journal.          *)
(***************************************************************************)
\* the schema created by createSchema: the tables, empty
EmptyDb ==
  [users |-> {}, user_profiles |-> {}, check_ins |-> {}, journal_entries |-> {},
   threads |-> {}, posts |-> {}]

\* MultiStepForm's useState for form
InitialForm ==
  [nickname |-> <<>>, age |-> <<>>, region |-> <<>>, baseline |-> <<>>,
   reminders |-> TRUE, community |-> TRUE, privateJournal |-> TRUE]

BackendInit == db = EmptyDb /\ requests = {} /\ responses = <<>>
ToastInit == toasts = <<>> /\ timers = <<>> /\ pushes = 0
FormInit ==
  current = 0 /\ form = InitialForm /\ completed = <<>> /\ done = FALSE /\ finishes = 0
RouterInit == hash = <<>> /\ rendered = AppPages(PathOfHash(<<>>))
OtherInit == BackendInit /\ ToastInit /\ FormInit /\ RouterInit

EmptyDraft == [note |-> <<>>, encrypted |-> FALSE, saving |-> FALSE]

\* CommunityProvider's two threads of a first visit
InitialThreads ==
  << [id |-> 1, title |-> "How do you do daily check-ins?", anonymous |-> TRUE,
      author |-> "Anon", createdAt |-> 0],
     [id |-> 2, title |-> "7-day walk challenge", anonymous |-> FALSE,
      author |-> "Kai", createdAt |-> 0] >>

\* localStorage of a first visit once the providers' effects have run:
\* ThemeProvider, I18nProvider and CommunityProvider write their state
MountedStorage ==
  storageSet(storageSet(storageSet(<<>>, "theme", "dark"), "lang", "en"),
             "threads", InitialThreads)

JournalMounted == path = "/journal"
BodyMounted == JournalMounted /\ open /\ selected # <<>>

JournalInit ==
  /\ localStorage = MountedStorage
  /\ user = <<>>
  /\ path = "/"
  /\ entries = storageGet(<<>>, "journalEntries", <<>>)
  /\ passphrase = <<>>
  /\ editor = EmptyDraft
  /\ saves = {}
  /\ calls = 0
  /\ selected = <<>>
  /\ open = FALSE
  /\ text = <<>>
  /\ attempts = {}
  /\ unhandled = NoError
  /\ now = 0

Init == OtherInit /\ JournalInit

(***************************************************************************)
(* EntryBody.                                                              *)
(***************************************************************************)
\* useState(entry.encrypted ? 'Decrypting...' : (entry.note || ''))
InitialText(entry) == IF IsEncrypted(entry) THEN Decrypting ELSE NoteOrEmpty(entry)

\* the effect's cleanup: mounted = false in the closures of earlier runs
Cleanup(as) == {[a EXCEPT !.live = FALSE] : a \in as}

\* does the effect's call of decryptNote await decryptText?
Awaits(entry, pass) == IsEncrypted(entry) /\ pass # <<>>

\* the effect for (entry, decryptNote): the attempts in flight after it ran
EffectAttempts(as, entry, pass) ==
  IF Awaits(entry, pass)
  THEN Cleanup(as) \cup {[entry |-> entry, pass |-> pass, live |-> TRUE]}
  ELSE Cleanup(as)

\* the rejection of the effect's async function when decryptNote throws
EffectError(entry, pass, before) ==
  IF IsEncrypted(entry) /\ pass = <<>> THEN PassphraseRequiredToDecrypt ELSE before

Pending == Cardinality(attempts)

(***************************************************************************)
(* Router: a hash change unmounts the page of the old path and mounts the  *)
(* page of the new one. JournalPage, JournalEditor and EntryBody start     *)
(* from their initial state; the effect cleanup of EntryBody runs.         *)
(***************************************************************************)
\* the saves in flight whose JournalEditor has been unmounted: its setState
\* calls no longer have any effect
Orphaned(ss) == {[s EXCEPT !.owner = FALSE] : s \in ss}

Navigate(to) ==
  /\ to # path
  /\ path' = to
  /\ editor' = EmptyDraft
  /\ selected' = <<>>
  /\ open' = FALSE
  /\ text' = <<>>
  /\ attempts' = Cleanup(attempts)
  /\ saves' = Orphaned(saves)
  /\ UNCHANGED otherVars
  /\ UNCHANGED <<localStorage, user, entries, passphrase, calls, unhandled, now>>

(***************************************************************************)
(* Mock authentication.                                                    *)
(***************************************************************************)
MockUser == [id |-> "uid_123", email |-> "user@example.org", nickname |-> "Explorer",
             token |-> "mock-token"]

\* signInWithEmailLink, once the fake delay has passed
signInWithEmailLink ==
  /\ user = <<>>
  /\ user' = <<MockUser>>
  /\ localStorage' = storageSet(localStorage, "user", MockUser)
  /\ UNCHANGED otherVars
  /\ UNCHANGED <<path, entries, passphrase, editor, saves, calls,
                 selected, open, text, attempts, unhandled, now>>

\* signOut: setUser(null) and localStorage.removeItem('user'), nothing else
signOut ==
  /\ user # <<>>
  /\ user' = <<>>
  /\ localStorage' = storageRemove(localStorage, "user")
  /\ UNCHANGED otherVars
  /\ UNCHANGED <<path, entries, passphrase, editor, saves, calls,
                 selected, open, text, attempts, unhandled, now>>

(***************************************************************************)
(* JournalPage: the passphrase input. A new passphrase gives a new         *)
(* decryptNote, so the effect of a mounted EntryBody is cleaned up and     *)
(* runs again.                                                             *)
(***************************************************************************)
setPassphrase(p) ==
  /\ JournalMounted
  /\ p # passphrase
  /\ passphrase' = p
  /\ IF BodyMounted
     THEN /\ Awaits(selected[1], p) => Pending < MaxPending
          /\ attempts' = EffectAttempts(attempts, selected[1], p)
          /\ unhandled' = EffectError(selected[1], p, unhandled)
     ELSE UNCHANGED <<attempts, unhandled>>
  /\ UNCHANGED otherVars
  /\ UNCHANGED <<localStorage, user, path, entries, editor, saves, calls,
                 selected, open, text, now>>

(***************************************************************************)
(* JournalEditor.                                                          *)
(***************************************************************************)
setNote(n) ==
  /\ JournalMounted
  /\ n # editor.note
  /\ editor' = [editor EXCEPT !.note = n]
  /\ UNCHANGED otherVars
  /\ UNCHANGED <<localStorage, user, path, entries, passphrase, saves,
                 calls, selected, open, text, attempts, unhandled, now>>

setEncrypted(b) ==
  /\ JournalMounted
  /\ b # editor.encrypted
  /\ editor' = [editor EXCEPT !.encrypted = b]
  /\ UNCHANGED otherVars
  /\ UNCHANGED <<localStorage, user, path, entries, passphrase, saves,
                 calls, selected, open, text, attempts, unhandled, now>>

\* what JournalEditor renders of its state: the textarea, the toggle and the
\* button; there is no element for an error
EditorView(ed) ==
  [textarea |-> ed.note, toggle |-> ed.encrypted,
   button |-> IF ed.saving THEN "Saving..." ELSE "Save entry", disabled |-> ed.saving]

\* the payload of save; the mood and tags drafts are at their initial values
SavePayload(draft, t) ==
  [id |-> t, date |-> t, mood |-> Null, moodLabel |-> Undefined,
   note |-> draft.note, tags |-> <<>>]

\* (mutant for C3) the check of the passphrase is missing
PassphraseSetUnchecked(pass) == TRUE

\* may addEntry(entry, true) go on to encryptText?
PassphraseSet(pass) == pass # <<>>

\* addEntry(entry, false): runs to its end without awaiting
addEntrySync(entry) ==
  /\ calls < MaxCalls
  /\ calls' = calls + 1
  /\ LET payload == addEntryPayload(entry, FALSE, Undefined)
         list == addEntryList(entries, payload)
     IN /\ entries' = list
        /\ localStorage' = storageSet(localStorage, "journalEntries", JsonList(list))

\* addEntry(entry, true) without a passphrase: throws
addEntryThrows ==
  /\ ~ PassphraseSet(passphrase)
  /\ calls < MaxCalls
  /\ calls' = calls + 1
  /\ unhandled' = PassphraseRequiredForEncryption

\* addEntry(entry, true): encryptText draws iv and salt and awaits deriveKey
addEntryAwaits(entry, iv, salt, owner) ==
  /\ PassphraseSet(passphrase)
  /\ calls < MaxCalls
  /\ calls' = calls + 1
  /\ saves' = saves \cup {[entry |-> entry, list |-> entries, pass |-> passphrase,
                           iv |-> iv, salt |-> salt, owner |-> owner,
                           seq |-> calls + 1, alone |-> saves = {}]}

\* save with the toggle off; the draft is reset, finally sets saving to false
savePlain ==
  /\ JournalMounted
  /\ ~ editor.saving
  /\ ~ editor.encrypted
  /\ addEntrySync(SavePayload(editor, now))
  /\ editor' = EmptyDraft
  /\ UNCHANGED otherVars
  /\ UNCHANGED <<user, path, passphrase, saves, selected, open, text,
                 attempts, unhandled, now>>

\* save with the toggle on and no passphrase: addEntry throws, the draft is
\* kept, finally sets saving to false
saveRejected ==
  /\ JournalMounted
  /\ ~ editor.saving
  /\ editor.encrypted
  /\ addEntryThrows
  /\ editor' = [editor EXCEPT !.saving = FALSE]
  /\ UNCHANGED otherVars
  /\ UNCHANGED <<localStorage, user, path, entries, passphrase, saves,
                 selected, open, text, attempts, now>>

\* save with the toggle on: saving is true while addEntry awaits
saveEncrypted(iv, salt) ==
  /\ JournalMounted
  /\ ~ editor.saving
  /\ editor.encrypted
  /\ addEntryAwaits(SavePayload(editor, now), iv, salt, TRUE)
  /\ editor' = [editor EXCEPT !.saving = TRUE]
  /\ UNCHANGED otherVars
  /\ UNCHANGED <<localStorage, user, path, entries, passphrase,
                 selected, open, text, attempts, unhandled, now>>

\* encryptText resolves: addEntry appends and stores, save resets the draft of
\* the editor that started it, if that editor is still mounted
addEntryResolved(s) ==
  /\ s \in saves
  /\ LET payload == encryptedPayload(s.entry, s.pass, s.iv, s.salt)
         list == addEntryList(s.list, payload)
     IN /\ entries' = list
        /\ localStorage' = storageSet(localStorage, "journalEntries", JsonList(list))
  /\ saves' = saves \ {s}
  /\ editor' = IF s.owner THEN EmptyDraft ELSE editor
  /\ UNCHANGED otherVars
  /\ UNCHANGED <<user, path, passphrase, calls, selected, open, text,
                 attempts, unhandled, now>>

(***************************************************************************)
(* JournalPage: the list and the modal with EntryBody.                     *)
(***************************************************************************)
\* [...entries].sort((a, b) => new Date(b.date) - new Date(a.date)): a copy,
\* sorted stably (ECMAScript 2019), the later date first; e goes behind
\* every entry of the sorted part whose date is not earlier
RECURSIVE InsertByDate(_, _)
InsertByDate(s, e) ==
  IF s = <<>> THEN <<e>>
  ELSE IF s[1].date >= e.date THEN <<s[1]>> \o InsertByDate(Tail(s), e)
  ELSE <<e>> \o s

RECURSIVE sorted(_)
sorted(list) ==
  IF list = <<>> THEN <<>>
  ELSE InsertByDate(sorted(SubSeq(list, 1, Len(list) - 1)), list[Len(list)])

\* JournalList: one JournalEntryCard per entry of the sorted list, with key
\* e.id. When the list changes React reconciles the cards shown with the
\* new children: the cards are kept position by position while the keys
\* agree; the old cards left over are then looked up by key, one card per
\* key (the last one), and those not taken are removed. An old card whose
\* key a later old card also has is neither taken nor removed: it stays.
RECURSIVE KeyPrefix(_, _)
KeyPrefix(old, new) ==
  IF old = <<>> \/ new = <<>> \/ old[1].id # new[1].id THEN 0
  ELSE 1 + KeyPrefix(Tail(old), Tail(new))

StaleCards(old, new) ==
  LET n == KeyPrefix(old, new)
      Shadowed(i) == \E j \in (i + 1)..Len(old) : old[j].id = old[i].id
      RECURSIVE From(_)
      From(i) == IF i > Len(old) THEN <<>>
                 ELSE IF Shadowed(i) THEN <<old[i]>> \o From(i + 1)
                 ELSE From(i + 1)
  IN IF n = Len(new) THEN <<>> ELSE From(n + 1)

\* the cards in the page after the list changed from old to new
JournalListCards(old, new) == new \o StaleCards(old, new)

\* a card of the list is clicked; the dialog covers the list while open
select(i) ==
  /\ JournalMounted
  /\ ~ open
  /\ i \in 1..Len(entries)
  /\ Awaits(entries[i], passphrase) => Pending < MaxPending
  /\ selected' = <<entries[i]>>
  /\ open' = TRUE
  /\ text' = InitialText(entries[i])
  /\ attempts' = EffectAttempts(attempts, entries[i], passphrase)
  /\ unhandled' = EffectError(entries[i], passphrase, unhandled)
  /\ UNCHANGED otherVars
  /\ UNCHANGED <<localStorage, user, path, entries, passphrase, editor,
                 saves, calls, now>>

closeModal ==
  /\ JournalMounted
  /\ open
  /\ open' = FALSE
  /\ text' = <<>>
  /\ attempts' = Cleanup(attempts)
  /\ UNCHANGED otherVars
  /\ UNCHANGED <<localStorage, user, path, entries, passphrase, editor,
                 saves, calls, selected, unhandled, now>>

\* if (mounted) setText(t)
ShownAfter(a, shown) == IF a.live THEN decryptNote(a.entry, a.pass) ELSE shown

\* decryptText settles for one attempt
decryptSettled(a) ==
  /\ a \in attempts
  /\ attempts' = attempts \ {a}
  /\ text' = ShownAfter(a, text)
  /\ UNCHANGED otherVars
  /\ UNCHANGED <<localStorage, user, path, entries, passphrase, editor,
                 saves, calls, selected, open, unhandled, now>>

Next ==
  \/ \E to \in Paths : Navigate(to)
  \/ signInWithEmailLink
  \/ signOut
  \/ \E p \in Passphrases : setPassphrase(p)
  \/ \E n \in NoteTexts : setNote(n)
  \/ \E b \in BOOLEAN : setEncrypted(b)
  \/ savePlain
  \/ saveRejected
  \/ \E iv \in Ivs, salt \in Salts : saveEncrypted(iv, salt)
  \/ \E s \in saves : addEntryResolved(s)

Spec == Init /\ [][Next]_vars

(***************************************************************************)
(* The journal editor with a clock that moves and an encryptText that may  *)
(* reject. Date.now() is the wall clock: it may stand still between two    *)
(* saves and it may be set back.                                           *)
(***************************************************************************)
Tick(t) ==
  /\ t # now
  /\ now' = t
  /\ UNCHANGED otherVars
  /\ UNCHANGED <<localStorage, user, path, entries, passphrase, editor, saves,
                 calls, selected, open, text, attempts, unhandled>>

\* (mutant for C13) the entry built so far is stored when encryptText rejects
StoreAfterRejectionPartial(list, entry) ==
  Append(list, [f \in DOMAIN entry \cup {"encrypted"} |->
                  IF f = "encrypted" THEN TRUE ELSE entry[f]])

\* addEntry after the await has rejected: setEntries and storage.set are
\* not reached, the list is the one of the current render
StoreAfterRejection(list, entry) == list

\* encryptText rejects: addEntry rejects, save's finally sets saving to
\* false in the editor that started it, the draft is kept, and nobody
\* handles the rejection of save
\* (mutant for C26) save without its finally: a rejection leaves saving set
addEntryFailedNoFinally(s) ==
  /\ s \in saves
  /\ saves' = saves \ {s}
  /\ unhandled' = EncryptionFailed
  /\ UNCHANGED otherVars
  /\ UNCHANGED <<localStorage, user, path, entries, passphrase, editor, calls,
                 selected, open, text, attempts, now>>

addEntryFailed(s) ==
  /\ s \in saves
  /\ entries' = StoreAfterRejection(entries, s.entry)
  /\ localStorage' =
       IF entries' = entries THEN localStorage
       ELSE storageSet(localStorage, "journalEntries", JsonList(entries'))
  /\ saves' = saves \ {s}
  /\ editor' = IF s.owner THEN [editor EXCEPT !.saving = FALSE] ELSE editor
  /\ unhandled' = EncryptionFailed
  /\ UNCHANGED otherVars
  /\ UNCHANGED <<user, path, passphrase, calls, selected, open, text, attempts, now>>

\* the journal page of a first visit
InitSave ==
  /\ OtherInit
  /\ localStorage = MountedStorage
  /\ user = <<>>
  /\ path = "/journal"
  /\ entries = storageGet(MountedStorage, "journalEntries", <<>>)
  /\ passphrase = <<>>
  /\ editor = EmptyDraft
  /\ saves = {}
  /\ calls = 0
  /\ selected = <<>>
  /\ open = FALSE
  /\ text = <<>>
  /\ attempts = {}
  /\ unhandled = NoError
  /\ now = 0

NextSave ==
  \/ \E t \in Times : Tick(t)
  \/ \E p \in Passphrases : setPassphrase(p)
  \/ \E n \in NoteTexts : setNote(n)
  \/ \E b \in BOOLEAN : setEncrypted(b)
  \/ savePlain
  \/ saveRejected
  \/ \E iv \in Ivs, salt \in Salts : saveEncrypted(iv, salt)
  \/ \E s \in saves : addEntryResolved(s)
  \/ \E s \in saves : addEntryFailed(s)

SpecSave == InitSave /\ [][NextSave]_vars

(***************************************************************************)
(* The journal page of a returning user: the store holds entries of        *)
(* earlier visits, saved by the editor at some time.                       *)
(***************************************************************************)
\* the lists of at most n elements of S
RECURSIVE Lists(_, _)
Lists(S, n) ==
  IF n = 0 THEN {<<>>}
  ELSE Lists(S, n - 1) \cup {Append(l, e) : l \in Lists(S, n - 1), e \in S}

EarlierEntries ==
  {addEntryPayload(SavePayload([note |-> <<97>>], t), FALSE, Undefined) : t \in Times}

InitList ==
  /\ OtherInit
  /\ localStorage \in {storageSet(MountedStorage, "journalEntries", JsonList(l)) :
                         l \in Lists(EarlierEntries, MaxStored)}
  /\ user = <<>>
  /\ path = "/journal"
  /\ entries = storageGet(localStorage, "journalEntries", <<>>)
  /\ passphrase = <<>>
  /\ editor = EmptyDraft
  /\ saves = {}
  /\ calls = 0
  /\ selected = <<>>
  /\ open = FALSE
  /\ text = <<>>
  /\ attempts = {}
  /\ unhandled = NoError
  /\ now \in Times

NextList ==
  \/ \E to \in Paths : Navigate(to)
  \/ \E t \in Times : Tick(t)
  \/ \E n \in NoteTexts : setNote(n)
  \/ savePlain
  \/ \E i \in 1..Len(entries) : select(i)
  \/ closeModal

SpecList == InitList /\ [][NextList]_vars

(***************************************************************************)
(* The display of stored entries. The journal page is open on a store      *)
(* that earlier saves have filled: each entry is the payload addEntry      *)
(* appends for a note, with the passphrase, iv and salt of its save.       *)
(***************************************************************************)
PlainEntries == {addEntryPayload(SavePayload([note |-> n], 0), FALSE, Undefined) :
                   n \in ViewNoteTexts}

\* the entry stored for note n saved under passphrase k, the random source
\* returning bytes b
EncryptedEntry(n, k, b) ==
  encryptedPayload(SavePayload([note |-> n], 0), k,
                   [i \in 1..IvLen |-> b], [i \in 1..SaltLen |-> b])

EncryptedEntries ==
  {EncryptedEntry(n, k, b) :
     n \in ViewNoteTexts, k \in ViewPassphrases \ {<<>>}, b \in RandomBytes}

InitView ==
  /\ OtherInit
  /\ entries \in Lists(PlainEntries \cup EncryptedEntries, MaxStored) \ {<<>>}
  /\ localStorage = storageSet(MountedStorage, "journalEntries", JsonList(entries))
  /\ user = <<>>
  /\ path = "/journal"
  /\ passphrase = <<>>
  /\ editor = EmptyDraft
  /\ saves = {}
  /\ calls = 0
  /\ selected = <<>>
  /\ open = FALSE
  /\ text = <<>>
  /\ attempts = {}
  /\ unhandled = NoError
  /\ now = 0

NextView ==
  \/ \E to \in Paths : Navigate(to)
  \/ \E p \in ViewPassphrases : setPassphrase(p)
  \/ \E i \in 1..Len(entries) : select(i)
  \/ closeModal
  \/ \E a \in attempts : decryptSettled(a)

SpecView == InitView /\ [][NextView]_vars

(***************************************************************************)
(* addEntry as the function the context exports: any component under       *)
(* JournalProvider may call it with an entry of its own making.            *)
(***************************************************************************)
SuppliedEntries ==
  {[id |-> 0, date |-> 0, note |-> <<97>>],
   [id |-> 0, date |-> 0, note |-> <<97>>, encrypted |-> FALSE],
   [id |-> 0, date |-> 0, note |-> <<97>>, encrypted |-> TRUE],
   [id |-> 0, date |-> 0]}

callAddEntryPlain(entry) ==
  /\ addEntrySync(entry)
  /\ UNCHANGED otherVars
  /\ UNCHANGED <<user, path, passphrase, editor, saves, selected, open, text,
                 attempts, unhandled, now>>

callAddEntryRejected ==
  /\ addEntryThrows
  /\ UNCHANGED otherVars
  /\ UNCHANGED <<localStorage, user, path, entries, passphrase, editor, saves,
                 selected, open, text, attempts, now>>

callAddEntryEncrypted(entry, iv, salt) ==
  /\ addEntryAwaits(entry, iv, salt, FALSE)
  /\ UNCHANGED otherVars
  /\ UNCHANGED <<localStorage, user, path, entries, passphrase, editor,
                 selected, open, text, attempts, unhandled, now>>

NextApi ==
  \/ \E to \in Paths : Navigate(to)
  \/ \E p \in Passphrases : setPassphrase(p)
  \/ \E entry \in SuppliedEntries : callAddEntryPlain(entry)
  \/ callAddEntryRejected
  \/ \E entry \in SuppliedEntries, iv \in Ivs, salt \in Salts :
       callAddEntryEncrypted(entry, iv, salt)
  \/ \E s \in saves : addEntryResolved(s)

SpecApi == Init /\ [][NextApi]_vars

(***************************************************************************)
(* The display of entries read from a localStorage that was damaged after  *)
(* they were saved: storage.get returns what JSON.parse reads, so the enc   *)
(* of an entry may hold any text.                                          *)
(***************************************************************************)
\* typed while displaying a damaged store: "", "a" and "b"
TypedPassphrases == {<<>>, <<97>>, <<98>>}

\* the entries saved from the note "a" under the passphrase "a"
SoundEntries == {EncryptedEntry(<<97>>, <<97>>, b) : b \in RandomBytes}

WithEnc(e, f, t) == [e EXCEPT !.enc = [e.enc EXCEPT ![f] = t]]

\* another character of the base64 alphabet at position i
FlipAt(t, i) == [t EXCEPT ![i] = (t[i] + 1) % 64]

\* a character outside the base64 alphabet at position 1
BadCharacter(t) == [t EXCEPT ![1] = 99]

\* well-formed base64 of other bytes: in the iv, in the salt, in the data
\* byte and in the tag of the ciphertext
CorruptedEntries ==
  LET e == EncryptedEntry(<<97>>, <<97>>, 0) IN
  {WithEnc(e, f, FlipAt(e.enc[f], 1)) : f \in {"iv", "salt", "ciphertext"}}
    \cup {WithEnc(e, "ciphertext", FlipAt(e.enc.ciphertext, 3)),
          WithEnc(e, "iv", SubSeq(e.enc.iv, 1, 15)),
          WithEnc(e, "salt", SubSeq(e.enc.salt, 1, 20))}

\* text atob rejects, in each field; a length of 1 mod 4; no enc at all
MalformedEntries ==
  LET e == EncryptedEntry(<<97>>, <<97>>, 0) IN
  {WithEnc(e, f, BadCharacter(e.enc[f])) : f \in {"iv", "salt", "ciphertext"}}
    \cup {WithEnc(e, "iv", SubSeq(e.enc.iv, 1, 13)),
          [f \in DOMAIN e \ {"enc"} |-> e[f]]}

\* an entry written by another client of the same format: the note "a"
\* under the passphrase "a", encrypted with a key derived from a salt of 15
\* bytes
ShortSaltEntries ==
  {encryptedPayload(SavePayload([note |-> <<97>>], 0), <<97>>,
                    [i \in 1..IvLen |-> 0], [i \in 1..SaltLen - 1 |-> 0])}

InitDamaged ==
  /\ OtherInit
  /\ entries \in Lists(PlainEntries \cup SoundEntries \cup CorruptedEntries
                         \cup MalformedEntries \cup ShortSaltEntries,
                       MaxStored) \ {<<>>}
  /\ localStorage = storageSet(MountedStorage, "journalEntries", JsonList(entries))
  /\ user = <<>>
  /\ path = "/journal"
  /\ passphrase = <<>>
  /\ editor = EmptyDraft
  /\ saves = {}
  /\ calls = 0
  /\ selected = <<>>
  /\ open = FALSE
  /\ text = <<>>
  /\ attempts = {}
  /\ unhandled = NoError
  /\ now = 0

NextDamaged ==
  \/ \E to \in Paths : Navigate(to)
  \/ \E p \in TypedPassphrases : setPassphrase(p)
  \/ \E i \in 1..Len(entries) : select(i)
  \/ closeModal
  \/ \E a \in attempts : decryptSettled(a)

SpecDamaged == InitDamaged /\ [][NextDamaged]_vars

(***************************************************************************)
(* The backend (backend/index.js with the DAO and the schema of            *)
(* models.js). A handler runs up to its first await in the step that       *)
(* receives the request; it then stands in requests until the statement it *)
(* awaits is executed. Every statement is its own transaction              *)
(* (autocommit: the handlers start none). created_at and the columns no    *)
(* handler of the model reads are left out of the rows.                    *)
(***************************************************************************)
\* a number of a JSON body, as a value distinct from every string
Num(n) == <<-4, n>>

\* !v for the values of a JSON body
Falsy(v) == v \in {Undefined, Null, <<>>, Num(0)}

\* a default of a destructuring pattern or of a parameter: used for undefined
OrDefault(v, d) == IF v = Undefined THEN d ELSE v

\* x ? 1 : 0
OneOrZero(v) == IF Falsy(v) THEN 0 ELSE 1

\* the users 'u1' (signed up) and 'u2' (not signed up)
U1 == <<117, 49>>
U2 == <<117, 50>>

\* crypto.randomUUID(): random, so two calls may return the same value
Uuids == {<<49>>, <<50>>}

\* the database once 'u1' has signed up (POST /auth/signup)
SignedUpDb ==
  [EmptyDb EXCEPT !.users = {[id |-> U1, email |-> <<117, 49, 64, 120>>]},
                  !.user_profiles = {[user_id |-> U1]}]

\* the requests received so far
Received == Len(responses) + Cardinality(requests)

\* res.status(s).json(...), and res.json(...) with s = 200
\* n is the request's number in the order of arrival
Answered(route, n, body, id, s) ==
  Append(responses,
         [route |-> route, n |-> n, body |-> body, id |-> id, status |-> s])

\* a handler at its await
Awaiting(route, body, id, pc) ==
  [route |-> route, n |-> Received + 1, body |-> body, id |-> id, pc |-> pc]

\* the errors an INSERT may end in: the row violates the PRIMARY KEY (id) or
\* the FOREIGN KEY (userColumn) REFERENCES users(id); which of two violated
\* constraints is reported is the server's choice. {""}: the row is inserted
InsertErrors(table, row, userColumn) ==
  LET violated ==
        {e \in {"ER_DUP_ENTRY"} : \E r \in table : r.id = row.id}
          \cup {e \in {"ER_NO_REFERENCED_ROW_2"} :
                  \A u \in db.users : u.id # row[userColumn]}
  IN IF violated = {} THEN {""} ELSE violated

(***************************************************************************)
(* POST /journal.                                                          *)
(***************************************************************************)
\* dao.addJournalEntry: the row of the INSERT
JournalRow(id, body) ==
  [id |-> id,
   user_id |-> body.user_id,
   mood |-> OrDefault(body.mood, Null),
   tags |-> IF Falsy(OrDefault(body.tags, Null)) THEN Null ELSE body.tags,
   encrypted |-> OneOrZero(OrDefault(body.encrypted, Num(1))),
   ciphertext |-> OrDefault(body.ciphertext, Null),
   iv |-> OrDefault(body.iv, Null),
   salt |-> OrDefault(body.salt, Null)]

\* the status of the checks before the first await; 0 when they pass
JournalRejection(body) ==
  IF Falsy(body.user_id) THEN 400
  ELSE IF /\ ~ Falsy(OrDefault(body.encrypted, Num(1)))
          /\ (Falsy(body.ciphertext) \/ Falsy(body.iv) \/ Falsy(body.salt))
  THEN 400
  ELSE 0

postJournal(body, id) ==
  /\ Received < MaxRequests
  /\ IF JournalRejection(body) # 0
     THEN /\ responses' = Answered("POST /journal", Received + 1, body, id,
                                   JournalRejection(body))
          /\ UNCHANGED requests
     ELSE /\ requests' = requests \cup {Awaiting("POST /journal", body, id, "addJournalEntry")}
          /\ UNCHANGED responses
  /\ UNCHANGED <<db, journalVars, toastVars, formVars, routerVars>>

addJournalEntry(r) ==
  /\ r \in requests
  /\ r.pc = "addJournalEntry"
  /\ LET row == JournalRow(r.id, r.body) IN
     \E error \in InsertErrors(db.journal_entries, row, "user_id") :
       IF error = ""
       THEN /\ db' = [db EXCEPT !.journal_entries = @ \cup {row}]
            /\ responses' = Answered(r.route, r.n, r.body, r.id, 200)
       ELSE /\ db' = db
            /\ responses' = Answered(r.route, r.n, r.body, r.id, 500)
  /\ requests' = requests \ {r}
  /\ UNCHANGED <<journalVars, toastVars, formVars, routerVars>>

\* the bodies sent to POST /journal: the fields of an encrypted entry made by
\* encryptText, and a plaintext note that a client may add
JournalBody(u, e, c, i, s, n) ==
  [user_id |-> u, mood |-> Undefined, tags |-> Undefined, encrypted |-> e,
   ciphertext |-> c, iv |-> i, salt |-> s, note |-> n]

SentEnc == encryptText(<<97>>, <<97>>, [i \in 1..IvLen |-> 0], [i \in 1..SaltLen |-> 0])

EncryptedFlags == {Undefined, Num(1), Num(0)}

JournalBodies ==
  {JournalBody(u, e, SentEnc.ciphertext, SentEnc.iv, SentEnc.salt, Undefined) :
     u \in {U1, U2}, e \in EncryptedFlags}
  \cup {JournalBody(U1, e, Undefined, SentEnc.iv, SentEnc.salt, <<97>>) :
          e \in EncryptedFlags}
  \cup {JournalBody(U1, e, SentEnc.ciphertext, Undefined, SentEnc.salt, <<97>>) :
          e \in EncryptedFlags}
  \cup {JournalBody(U1, e, SentEnc.ciphertext, SentEnc.iv, Undefined, <<97>>) :
          e \in EncryptedFlags}
  \cup {JournalBody(U1, e, <<>>, SentEnc.iv, SentEnc.salt, <<97>>) :
          e \in EncryptedFlags}
  \cup {JournalBody(Undefined, Undefined, SentEnc.ciphertext, SentEnc.iv,
                    SentEnc.salt, Undefined)}

\* a backend on whose database 'u1' has signed up; the client is untouched
InitBackend ==
  /\ db = SignedUpDb
  /\ requests = {}
  /\ responses = <<>>
  /\ ToastInit /\ FormInit /\ RouterInit
  /\ JournalInit

NextJournalApi ==
  \/ \E body \in JournalBodies, id \in Uuids : postJournal(body, id)
  \/ \E r \in requests : addJournalEntry(r)

SpecJournalApi == InitBackend /\ [][NextJournalApi]_vars

(***************************************************************************)
(* POST /checkins.                                                         *)
(***************************************************************************)
Hyphen == 45
IsDigit(c) == c >= 48 /\ c <= 57

\* the value of a string of digits; Failure for any other string
RECURSIVE NumberOf(_)
NumberOf(s) ==
  IF s = <<>> \/ ~ IsDigit(s[Len(s)]) THEN Failure
  ELSE IF Len(s) = 1 THEN <<s[1] - 48>>
  ELSE LET front == NumberOf(SubSeq(s, 1, Len(s) - 1))
       IN IF front = Failure THEN Failure
          ELSE <<front[1] * 10 + (s[Len(s)] - 48)>>

\* the parts of s between hyphens
RECURSIVE HyphenParts(_)
HyphenParts(s) ==
  IF \A i \in DOMAIN s : s[i] # Hyphen THEN <<s>>
  ELSE LET i == CHOOSE j \in DOMAIN s :
                  s[j] = Hyphen /\ \A k \in 1..(j - 1) : s[k] # Hyphen
       IN <<SubSeq(s, 1, i - 1)>> \o HyphenParts(SubSeq(s, i + 1, Len(s)))

\* the DATE that MySQL stores for a string 'Y-M-D' (the parts need no
\* leading zeros); Failure is ER_TRUNCATED_WRONG_VALUE. The model sends no
\* string of another form that MySQL also reads as a date.
DateOf(s) ==
  LET parts == HyphenParts(s)
      nums == [i \in DOMAIN parts |-> NumberOf(parts[i])]
  IN IF /\ Len(parts) = 3
        /\ \A i \in 1..3 : nums[i] # Failure
        /\ nums[2][1] \in 1..12
        /\ nums[3][1] \in 1..31
     THEN <<nums[1][1], nums[2][1], nums[3][1]>>
     ELSE Failure

\* dao.addCheckIn: the row of the INSERT, date_key as the column stores it
CheckInRow(id, body) ==
  [id |-> id,
   user_id |-> body.user_id,
   date_key |-> DateOf(body.date_key),
   mood |-> body.mood,
   note |-> OrDefault(body.note, Null)]

\* the errors the INSERT INTO check_ins may end in: a date_key that is no
\* date, or a violated PRIMARY KEY (id), UNIQUE KEY (user_id, date_key) or
\* FOREIGN KEY (user_id)
CheckInErrors(table, row) ==
  IF row.date_key = Failure THEN {"ER_TRUNCATED_WRONG_VALUE"}
  ELSE IF \E r \in table : r.user_id = row.user_id /\ r.date_key = row.date_key
  THEN {"ER_DUP_ENTRY"}
  ELSE InsertErrors(table, row, "user_id")

\* the status of the checks before the first await; 0 when they pass
CheckInRejection(body) ==
  IF Falsy(body.user_id) \/ Falsy(body.date_key) \/ Falsy(body.mood)
  THEN 400
  ELSE 0

\* the status the handler answers for the outcome of dao.addCheckIn
CheckInStatusNoConflict(error) == IF error = "" THEN 200 ELSE 500

CheckInStatus(error) ==
  IF error = "" THEN 200
  ELSE IF error = "ER_DUP_ENTRY" THEN 409
  ELSE 500

postCheckin(body, id) ==
  /\ Received < MaxRequests
  /\ IF CheckInRejection(body) # 0
     THEN /\ responses' = Answered("POST /checkins", Received + 1, body, id,
                                   CheckInRejection(body))
          /\ UNCHANGED requests
     ELSE /\ requests' = requests \cup {Awaiting("POST /checkins", body, id, "addCheckIn")}
          /\ UNCHANGED responses
  /\ UNCHANGED <<db, journalVars, toastVars, formVars, routerVars>>

addCheckIn(r) ==
  /\ r \in requests
  /\ r.pc = "addCheckIn"
  /\ LET row == CheckInRow(r.id, r.body) IN
     \E error \in CheckInErrors(db.check_ins, row) :
       /\ db' = IF error = "" THEN [db EXCEPT !.check_ins = @ \cup {row}] ELSE db
       /\ responses' = Answered(r.route, r.n, r.body, r.id, CheckInStatus(error))
  /\ requests' = requests \ {r}
  /\ UNCHANGED <<journalVars, toastVars, formVars, routerVars>>

\* the dates '2024-01-01', '2024-1-1' (the same day), '2024-01-02' and 'x'
D1 == <<50, 48, 50, 52, 45, 48, 49, 45, 48, 49>>
D1Short == <<50, 48, 50, 52, 45, 49, 45, 49>>
D2 == <<50, 48, 50, 52, 45, 48, 49, 45, 48, 50>>
NoDate == <<120>>

CheckInBody(u, d, m) == [user_id |-> u, date_key |-> d, mood |-> m, note |-> Undefined]

CheckInBodies ==
  {CheckInBody(u, d, Num(3)) : u \in {U1, U2}, d \in {D1, D1Short, D2, NoDate}}
  \cup {CheckInBody(Undefined, D1, Num(3)), CheckInBody(U1, Undefined, Num(3)),
        CheckInBody(U1, D1, Undefined), CheckInBody(U1, D1, Num(0)),
        CheckInBody(<<>>, D1, Num(3))}

NextCheckins ==
  \/ \E body \in CheckInBodies, id \in Uuids : postCheckin(body, id)
  \/ \E r \in requests : addCheckIn(r)

SpecCheckins == InitBackend /\ [][NextCheckins]_vars

(***************************************************************************)
(* Reloading the page. The document and every promise in flight are gone;  *)
(* localStorage and the hash stay. The providers and the page of the path  *)
(* are constructed again: useProvideAuth reads 'user', JournalProvider     *)
(* reads 'journalEntries'.                                                 *)
(***************************************************************************)
\* useState(() => storage.get('journalEntries', []))
StoredEntries(ls) == storageGet(ls, "journalEntries", <<>>)

\* useState(() => JSON.parse(localStorage.getItem('user') || 'null'))
StoredUser(ls) == IF "user" \in DOMAIN ls THEN <<ls["user"]>> ELSE <<>>

reload ==
  /\ entries' = StoredEntries(localStorage)
  /\ user' = StoredUser(localStorage)
  /\ passphrase' = <<>>
  /\ editor' = EmptyDraft
  /\ saves' = {}
  /\ selected' = <<>>
  /\ open' = FALSE
  /\ text' = <<>>
  /\ attempts' = {}
  /\ unhandled' = NoError
  /\ UNCHANGED otherVars
  /\ UNCHANGED <<localStorage, path, calls, now>>

NextReload ==
  \/ \E p \in Passphrases : setPassphrase(p)
  \/ \E n \in NoteTexts : setNote(n)
  \/ \E b \in BOOLEAN : setEncrypted(b)
  \/ savePlain
  \/ saveRejected
  \/ \E iv \in Ivs, salt \in Salts : saveEncrypted(iv, salt)
  \/ \E s \in saves : addEntryResolved(s)
  \/ \E s \in saves : addEntryFailed(s)
  \/ reload

SpecReload == InitSave /\ [][NextReload]_vars

(***************************************************************************)
(* The passphrase field edited while saves are in flight. The passphrases  *)
(* typed are the ones of the display, and "b".                             *)
(***************************************************************************)
RetypedPassphrases == ViewPassphrases \cup {<<98>>}

NextRetype ==
  \/ \E p \in RetypedPassphrases : setPassphrase(p)
  \/ \E n \in NoteTexts : setNote(n)
  \/ \E b \in BOOLEAN : setEncrypted(b)
  \/ \E iv \in Ivs, salt \in Salts : saveEncrypted(iv, salt)
  \/ \E s \in saves : addEntryResolved(s)

SpecRetype == InitSave /\ [][NextRetype]_vars

(***************************************************************************)
(* The journal editor over its life: saves that resolve or reject, and the *)
(* page left and opened again while a save is in flight. A promise of      *)
(* WebCrypto settles: a save in flight is resolved or rejected in the end. *)
(***************************************************************************)
SettleSave ==
  \E s \in saves :
    /\ saves' = saves \ {s}
    /\ addEntryFailed(s) \/ addEntryResolved(s)

\* the journal page with a passphrase typed, or none
InitEditor ==
  /\ OtherInit
  /\ localStorage = MountedStorage
  /\ user = <<>>
  /\ path = "/journal"
  /\ entries = storageGet(MountedStorage, "journalEntries", <<>>)
  /\ passphrase \in Passphrases
  /\ editor = EmptyDraft
  /\ saves = {}
  /\ calls = 0
  /\ selected = <<>>
  /\ open = FALSE
  /\ text = <<>>
  /\ attempts = {}
  /\ unhandled = NoError
  /\ now = 0

NextEditor ==
  \/ \E to \in Paths : Navigate(to)
  \/ \E n \in NoteTexts : setNote(n)
  \/ \E b \in BOOLEAN : setEncrypted(b)
  \/ savePlain
  \/ saveRejected
  \/ \E iv \in Ivs, salt \in Salts : saveEncrypted(iv, salt)
  \/ \E s \in saves : addEntryResolved(s)
  \/ \E s \in saves : addEntryFailed(s)

SpecEditor == InitEditor /\ [][NextEditor]_vars /\ WF_vars(SettleSave)

(***************************************************************************)
(* The router on its own: the hash is changed by the user (the address bar *)
(* or the history) or by navigate, and App renders for the path of the     *)
(* hash. Here the path is the string that Route and NotFoundGuard compare; *)
(* the journal specifications keep it as a token.                          *)
(***************************************************************************)
\* the strings of at most n characters '/' and 'x'
RECURSIVE Tails(_)
Tails(n) ==
  IF n = 0 THEN {<<>>}
  ELSE Tails(n - 1) \cup {t \o <<c>> : t \in Tails(n - 1), c \in {Slash, 120}}

\* the hashes tried: none, '#', and '#' with a known path and a tail
Hashes ==
  {<<>>, <<Sharp>>}
    \cup {<<Sharp>> \o knownPaths[i] \o t : i \in DOMAIN knownPaths, t \in Tails(MaxTail)}

\* the hashchange event: setPath(window.location.hash.replace('#', '') || '/')
hashchange(h) ==
  /\ h # hash
  /\ hash' = h
  /\ rendered' = AppPages(PathOfHash(h))
  /\ UNCHANGED <<journalVars, backendVars, toastVars, formVars>>

\* the hash after window.location.hash = to
HashAfter(to) == IF to = <<>> THEN <<>> ELSE <<Sharp>> \o to

\* navigate(to), called by Link with a known path
navigate(to) ==
  LET target == IF to # <<>> /\ to[1] = Slash THEN to ELSE <<Slash>> \o to
  IN hashchange(HashAfter(target))

NextRouter ==
  \/ \E h \in Hashes : hashchange(h)
  \/ \E i \in DOMAIN knownPaths : navigate(knownPaths[i])

SpecRouter == Init /\ [][NextRouter]_vars

(***************************************************************************)
(* POST /threads and POST /threads/:id/posts. dao.addPost executes two     *)
(* statements, each committed on its own; a statement may also be rejected *)
(* by the connection (lost connection, lock wait timeout), which the       *)
(* handler's catch answers with 500.                                       *)
(***************************************************************************)
\* dao.createThread: the row of the INSERT; replies_count is the column's
\* DEFAULT 0
ThreadRow(id, body) ==
  [id |-> id,
   author_user_id |-> body.author_user_id,
   title |-> body.title,
   content |-> body.content,
   anonymous |-> OneOrZero(OrDefault(body.anonymous, Num(1))),
   replies_count |-> 0]

\* dao.addPost: the row of the INSERT
PostRow(id, threadId, body) ==
  [id |-> id,
   thread_id |-> threadId,
   author_user_id |-> body.author_user_id,
   content |-> body.content,
   anonymous |-> OneOrZero(OrDefault(body.anonymous, Num(1)))]

\* the errors the INSERT INTO posts may end in: the FOREIGN KEY (thread_id)
\* REFERENCES threads(id) besides the constraints of InsertErrors
PostErrors(table, row) ==
  LET violated ==
        (InsertErrors(table, row, "author_user_id") \ {""})
          \cup {e \in {"ER_NO_REFERENCED_ROW_2"} :
                  \A t \in db.threads : t.id # row.thread_id}
  IN IF violated = {} THEN {""} ELSE violated

\* UPDATE threads SET replies_count = replies_count + 1 WHERE id = ?
RepliesCounted(table, threadId) ==
  {IF t.id = threadId THEN [t EXCEPT !.replies_count = @ + 1] ELSE t : t \in table}

ThreadRejection(body) ==
  IF Falsy(body.author_user_id) \/ Falsy(body.title) \/ Falsy(body.content)
  THEN 400
  ELSE 0

PostRejection(body) ==
  IF Falsy(body.author_user_id) \/ Falsy(body.content) THEN 400 ELSE 0

postThread(body, id) ==
  /\ Received < MaxRequests
  /\ IF ThreadRejection(body) # 0
     THEN /\ responses' = Answered("POST /threads", Received + 1, body, id,
                                   ThreadRejection(body))
          /\ UNCHANGED requests
     ELSE /\ requests' = requests \cup {Awaiting("POST /threads", body, id, "createThread")}
          /\ UNCHANGED responses
  /\ UNCHANGED <<db, journalVars, toastVars, formVars, routerVars>>

createThread(r) ==
  /\ r \in requests
  /\ r.pc = "createThread"
  /\ LET row == ThreadRow(r.id, r.body) IN
     \E error \in InsertErrors(db.threads, row, "author_user_id") :
       /\ db' = IF error = "" THEN [db EXCEPT !.threads = @ \cup {row}] ELSE db
       /\ responses' = Answered(r.route, r.n, r.body, r.id,
                                IF error = "" THEN 200 ELSE 500)
  /\ requests' = requests \ {r}
  /\ UNCHANGED <<journalVars, toastVars, formVars, routerVars>>

\* the body of a request to /threads/:id/posts carries the :id of the URL
postPost(body, id) ==
  /\ Received < MaxRequests
  /\ IF PostRejection(body) # 0
     THEN /\ responses' = Answered("POST /threads/:id/posts", Received + 1, body, id,
                                   PostRejection(body))
          /\ UNCHANGED requests
     ELSE /\ requests' = requests
               \cup {Awaiting("POST /threads/:id/posts", body, id, "addPost INSERT")}
          /\ UNCHANGED responses
  /\ UNCHANGED <<db, journalVars, toastVars, formVars, routerVars>>

\* dao.addPost, first statement
addPostInsert(r) ==
  /\ r \in requests
  /\ r.pc = "addPost INSERT"
  /\ LET row == PostRow(r.id, r.body.params_id, r.body) IN
     \E error \in PostErrors(db.posts, row) :
       IF error = ""
       THEN /\ db' = [db EXCEPT !.posts = @ \cup {row}]
            /\ requests' = (requests \ {r}) \cup {[r EXCEPT !.pc = "addPost UPDATE"]}
            /\ UNCHANGED responses
       ELSE /\ db' = db
            /\ requests' = requests \ {r}
            /\ responses' = Answered(r.route, r.n, r.body, r.id, 500)
  /\ UNCHANGED <<journalVars, toastVars, formVars, routerVars>>

\* dao.addPost, second statement
addPostUpdate(r) ==
  /\ r \in requests
  /\ r.pc = "addPost UPDATE"
  /\ db' = [db EXCEPT !.threads = RepliesCounted(@, r.body.params_id)]
  /\ requests' = requests \ {r}
  /\ responses' = Answered(r.route, r.n, r.body, r.id, 200)
  /\ UNCHANGED <<journalVars, toastVars, formVars, routerVars>>

\* the statement a handler awaits is rejected by the connection
statementRejected(r) ==
  /\ r \in requests
  /\ requests' = requests \ {r}
  /\ responses' = Answered(r.route, r.n, r.body, r.id, 500)
  /\ UNCHANGED <<db, journalVars, toastVars, formVars, routerVars>>

ThreadBodies ==
  {[author_user_id |-> u, title |-> <<116>>, content |-> <<99>>, anonymous |-> Undefined] :
     u \in {U1, U2, Undefined}}

PostBodies ==
  {[params_id |-> t, author_user_id |-> u, content |-> <<99>>, anonymous |-> Undefined] :
     t \in Uuids, u \in {U1, U2, Undefined}}

NextThreads ==
  \/ \E body \in ThreadBodies, id \in Uuids : postThread(body, id)
  \/ \E r \in requests : createThread(r)
  \/ \E body \in PostBodies, id \in Uuids : postPost(body, id)
  \/ \E r \in requests : addPostInsert(r)
  \/ \E r \in requests : addPostUpdate(r)
  \/ \E r \in requests : statementRejected(r)

SpecThreads == InitBackend /\ [][NextThreads]_vars

(***************************************************************************)
(* ToastProvider. Every timer of push has the same delay, so the timers    *)
(* run in the order of their push calls. A toast and a timer carry, for    *)
(* the history, the number n of the push call that made them.              *)
(***************************************************************************)
\* Date.now() + Math.random(), in units of the spacing of the doubles at
\* that magnitude: random is the rounded fraction, Ulps when the sum rounds
\* up to the next millisecond
ToastId(time, random) == time * Ulps + random

\* t.filter((x) => x.id !== id)
WithoutId(list, id) == SelectSeq(list, LAMBDA x : x.id # id)

push(msg, random) ==
  /\ pushes < MaxPushes
  /\ pushes' = pushes + 1
  /\ LET id == ToastId(now, random) IN
       /\ toasts' = Append(toasts, [id |-> id, msg |-> msg, n |-> pushes + 1])
       /\ timers' = Append(timers, [id |-> id, n |-> pushes + 1])
  /\ UNCHANGED <<journalVars, backendVars, formVars, routerVars>>

\* the callback of the oldest setTimeout runs
timerFires ==
  /\ timers # <<>>
  /\ toasts' = WithoutId(toasts, Head(timers).id)
  /\ timers' = Tail(timers)
  /\ UNCHANGED <<pushes, journalVars, backendVars, formVars, routerVars>>

ToastMessages == {"Check-in saved"}

NextToasts ==
  \/ \E msg \in ToastMessages, random \in 0..Ulps : push(msg, random)
  \/ timerFires
  \/ \E t \in Times : Tick(t)

SpecToasts == Init /\ [][NextToasts]_vars /\ WF_vars(timerFires)

(***************************************************************************)
(* MultiStepForm inside OnboardingPage. The events are flushed one at a    *)
(* time, so a handler sees the current and form of the last render.        *)
(***************************************************************************)
steps == <<"Personal", "Baseline", "Preferences">>

Min(a, b) == IF a < b THEN a ELSE b
Max(a, b) == IF a > b THEN a ELSE b

\* setCurrent((c) => Math.min(c + 1, steps.length - 1))
next(c) == Min(c + 1, Len(steps) - 1)
\* setCurrent((c) => Math.max(c - 1, 0))
back(c) == Max(c - 1, 0)

\* the value storage.get reads back after storage.set('onboarding', form):
\* every property of form is a string or a boolean
JsonForm(f) == [k \in DOMAIN f |-> f[k]]

\* the inputs of each step and the values the model gives them: the text
\* inputs of step 0, the options of the select of step 1, the toggles of
\* step 2
FormInputs ==
  [s \in 0..2 |->
     CASE s = 0 -> {<<"nickname", <<>>>>, <<"nickname", <<97>>>>,
                    <<"age", <<>>>>, <<"age", <<50>>>>,
                    <<"region", <<>>>>, <<"region", <<85, 83>>>>}
       [] s = 1 -> {<<"baseline", <<>>>>, <<"baseline", <<108, 111, 119>>>>,
                    <<"baseline", <<110, 101, 117, 116, 114, 97, 108>>>>,
                    <<"baseline", <<112, 111, 115, 105, 116, 105, 118, 101>>>>}
       [] s = 2 -> {<<"reminders", ~ form.reminders>>,
                    <<"community", ~ form.community>>,
                    <<"privateJournal", ~ form.privateJournal>>}]

\* onChange / onToggle of an input of the step shown: setForm({ ...form, [field]: v })
setForm(field, v) ==
  /\ ~ done
  /\ <<field, v>> \in FormInputs[current]
  /\ form' = [form EXCEPT ![field] = v]
  /\ UNCHANGED <<current, completed, done, finishes>>
  /\ UNCHANGED <<journalVars, backendVars, toastVars, routerVars>>

\* the Back button, disabled on step 0
clickBack ==
  /\ ~ done
  /\ current # 0
  /\ current' = back(current)
  /\ UNCHANGED <<form, completed, done, finishes>>
  /\ UNCHANGED <<journalVars, backendVars, toastVars, routerVars>>

\* (mutant for C30) submit completes the onboarding on every step
submitEveryStep ==
  /\ ~ done
  /\ finishes' = IF current = Len(steps) - 1 THEN finishes + 1 ELSE finishes
  /\ localStorage' = storageSet(localStorage, "onboarding", JsonForm(form))
  /\ completed' = Append(completed, form)
  /\ done' = TRUE
  /\ UNCHANGED <<current, form>>
  /\ UNCHANGED <<user, path, entries, passphrase, editor, saves, calls,
                 selected, open, text, attempts, unhandled, now>>
  /\ UNCHANGED <<backendVars, toastVars, routerVars>>

\* onSubmit of the form of the step shown; onComplete is OnboardingPage's
\* handleComplete
submit ==
  /\ ~ done
  /\ finishes' = IF current = Len(steps) - 1 THEN finishes + 1 ELSE finishes
  /\ IF current < Len(steps) - 1
     THEN /\ current' = next(current)
          /\ UNCHANGED <<localStorage, form, completed, done>>
     ELSE /\ localStorage' = storageSet(localStorage, "onboarding", JsonForm(form))
          /\ completed' = Append(completed, form)
          /\ done' = TRUE
          /\ UNCHANGED <<current, form>>
  /\ UNCHANGED <<user, path, entries, passphrase, editor, saves, calls,
                 selected, open, text, attempts, unhandled, now>>
  /\ UNCHANGED <<backendVars, toastVars, routerVars>>

\* the user leaves /onboarding and comes back: OnboardingPage and its
\* MultiStepForm are mounted anew
mountOnboarding ==
  /\ Len(completed) < MaxCompletions
  /\ current' = 0
  /\ form' = InitialForm
  /\ done' = FALSE
  /\ UNCHANGED <<completed, finishes>>
  /\ UNCHANGED <<journalVars, backendVars, toastVars, routerVars>>

NextOnboarding ==
  \/ \E s \in 0..2 : \E input \in FormInputs[s] : setForm(input[1], input[2])
  \/ clickBack
  \/ submit
  \/ mountOnboarding

SpecOnboarding == Init /\ [][NextOnboarding]_vars

(***************************************************************************)
(* Properties.                                                             *)
(***************************************************************************)
Range(q) == {q[i] : i \in 1..Len(q)}
StoredList == storageGet(localStorage, "journalEntries", <<>>)

\* C1: round trip. Whenever the store holds the entry addEntry stored for a
\* note n under the passphrase that is now the session passphrase,
\* decryptNote on that entry returns exactly n.
C1_RoundTrip ==
  \A i \in 1..Len(entries) : \A n \in ViewNoteTexts, b \in RandomBytes :
    (passphrase # <<>> /\ entries[i] = EncryptedEntry(n, passphrase, b))
      => decryptNote(entries[i], passphrase) = n

\* C2: wrong-key rejection. For a stored entry encrypted under k1 and a
\* non-empty session passphrase other than k1, decryptNote returns the
\* placeholder 'Unable to decrypt' (it neither throws nor returns a text).
C2_WrongKeyRejected ==
  \A i \in 1..Len(entries) :
    \A n \in ViewNoteTexts, k1 \in ViewPassphrases \ {<<>>}, b \in RandomBytes :
      (passphrase # <<>> /\ passphrase # k1 /\ entries[i] = EncryptedEntry(n, k1, b))
        => decryptNote(entries[i], passphrase) = UnableToDecrypt

\* C3: empty passphrase rejection. A step in which the editor saves with
\* encryption on while the passphrase is empty raises the
\* passphrase-required error, starts no encryption (no iv or salt is drawn,
\* nothing awaits encryptText) and leaves the entries and localStorage as
\* they were.
C3_EmptyPassphraseRejected ==
  [][(editor.encrypted /\ passphrase = <<>> /\ calls' = calls + 1)
       => /\ unhandled' = PassphraseRequiredForEncryption
          /\ saves' = saves
          /\ entries' = entries
          /\ localStorage' = localStorage]_vars

C3_Witness ==
  /\ unhandled = PassphraseRequiredForEncryption
  /\ calls = 1
  /\ editor.encrypted
  /\ entries = <<>>
  /\ "journalEntries" \notin DOMAIN localStorage

\* C4: mutual exclusivity. No entry of the in-memory list or of the list
\* in localStorage has encrypted = true together with a populated note,
\* whatever entry addEntry was called with.
Populated(note) == note # Undefined /\ note # <<>>
Exclusive(e) == ~ (IsEncrypted(e) /\ Populated(NoteOf(e)))

C4_MutualExclusivity ==
  /\ \A e \in Range(entries) : Exclusive(e)
  /\ \A e \in Range(StoredList) : Exclusive(e)

\* C5: the passphrase never reaches durable storage. localStorage holds
\* only the keys of the application; a stored entry has only the fields of
\* the payload, and its enc only iv, salt and ciphertext; no stored field
\* of an encrypted entry is the session passphrase, and none of them opens
\* a stored entry when used as the passphrase.
StorageKeys == {"theme", "lang", "threads", "user", "journalEntries"}
UserFields == {"id", "email", "nickname", "token"}
EntryFields == {"id", "date", "mood", "moodLabel", "note", "tags", "encrypted", "enc"}
EncFields == {"iv", "salt", "ciphertext"}
StoredEncrypted == {e \in Range(StoredList) : "enc" \in DOMAIN e}

C5_PassphraseNotStored ==
  /\ DOMAIN localStorage \subseteq StorageKeys
  /\ localStorage["theme"] = "dark"
  /\ localStorage["lang"] = "en"
  /\ localStorage["threads"] = InitialThreads
  /\ "user" \in DOMAIN localStorage => DOMAIN localStorage["user"] \subseteq UserFields
  /\ \A e \in Range(StoredList) :
       /\ DOMAIN e \subseteq EntryFields
       /\ "enc" \in DOMAIN e => DOMAIN e.enc = EncFields
  /\ \A e \in StoredEncrypted : \A f \in EncFields :
       /\ b64ToBuf(e.enc[f]) # Failure
       /\ passphrase # <<>> => b64ToBuf(e.enc[f]) # strToBuf(passphrase)
       /\ \A e2 \in StoredEncrypted :
            decryptText(bufToStr(b64ToBuf(e.enc[f])), e2.enc) = Failure

C5_Witness ==
  /\ StoredEncrypted # {}
  /\ passphrase # <<>>
  /\ "user" \in DOMAIN localStorage

\* C6: sign-out clears the session passphrase: a step that signs the user
\* out leaves the passphrase of JournalProvider empty.
C6_SignOutClearsPassphrase ==
  [][(user # <<>> /\ user' = <<>>) => passphrase' = <<>>]_vars

\* C7: concurrent saves are independent. When an addEntry call in flight
\* completes, every entry that was in the store is still there, in the list
\* in memory and in localStorage: no save overwrites another.
KeepsAll(old, new) ==
  /\ Len(new) >= Len(old)
  /\ \A i \in 1..Len(old) : new[i] = old[i]

C7_NoSaveLost ==
  [][\A s \in saves :
       (saves' = saves \ {s})
         => KeepsAll(entries, entries') /\ KeepsAll(StoredList, StoredList')]_vars

\* C8: append-only frame. A successful addEntry that overlaps no other
\* addEntry (none in flight when it was called, none called before it
\* completed) leaves the store as the old store followed by one new entry,
\* in memory and in localStorage, also when an equal entry is already
\* stored.
AppendsOne(old, new) == Len(new) = Len(old) + 1 /\ SubSeq(new, 1, Len(old)) = old

AppendedToStore ==
  /\ AppendsOne(entries, entries')
  /\ AppendsOne(StoredList, StoredList')
  /\ StoredList'[Len(StoredList')] = JsonEntry(entries'[Len(entries')])

C8_AppendOnly ==
  [][/\ (~ editor.encrypted /\ calls' = calls + 1 /\ saves = {}) => AppendedToStore
     /\ \A s \in saves :
          (saves' = saves \ {s} /\ s.alone /\ s.seq = calls) => AppendedToStore]_vars

C8_Witness ==
  /\ Len(entries) = 2
  /\ entries[1] = entries[2]
  /\ IsEncrypted(entries[1])
  /\ saves = {}
  /\ StoredList = JsonList(entries)

\* C9: a decryption attempt ends. When an encrypted entry is displayed and
\* no decryption for the display is in flight, the display has left
\* 'Decrypting...', whatever the passphrase, the empty one included.
LiveAttempts == {a \in attempts : a.live}

C9_DecryptingEnds ==
  (BodyMounted /\ IsEncrypted(selected[1]) /\ LiveAttempts = {}) => text # Decrypting

\* C10: DecryptFailed is not terminal. With the placeholder shown for an
\* entry, a change of the passphrase to the one the entry was saved under
\* starts a new attempt for the displayed entry, and when that attempt
\* settles the display shows the note the entry was saved from.
C10_RetryShowsPlaintext ==
  [][\A n \in ViewNoteTexts, b \in RandomBytes :
       (/\ BodyMounted /\ BodyMounted'
        /\ text = UnableToDecrypt
        /\ passphrase' # <<>>
        /\ selected[1] = EncryptedEntry(n, passphrase', b))
         => /\ passphrase' # passphrase
                 => \E a \in attempts' :
                      a.live /\ a.entry = selected[1] /\ a.pass = passphrase'
            /\ (passphrase' = passphrase /\ \E a \in LiveAttempts : a \notin attempts')
                 => text' = n]_vars

\* C11: non-disclosure of the failure cause. With a non-empty passphrase,
\* when the decryption of the displayed entry settles, the one text
\* 'Unable to decrypt' is shown and no error is raised, be the entry a
\* sound one under a wrong passphrase, one with a corrupted iv, salt or
\* ciphertext, or one with a malformed base64 field or no enc.
FailsToDecrypt(e, p) ==
  \/ e \in SoundEntries /\ p # <<97>>
  \/ e \in CorruptedEntries
  \/ e \in MalformedEntries

C11_FailureCauseNotDisclosed ==
  [][\A a \in attempts :
       (/\ BodyMounted /\ BodyMounted' /\ passphrase' = passphrase
        /\ attempts' = attempts \ {a} /\ a.live
        /\ FailsToDecrypt(a.entry, a.pass))
         => text' = UnableToDecrypt /\ unhandled' = unhandled]_vars

\* the placeholder is shown for a malformed entry under the passphrase it
\* was saved with
C11_Witness ==
  /\ BodyMounted
  /\ selected[1] \in MalformedEntries
  /\ "enc" \in DOMAIN selected[1]
  /\ passphrase = <<97>>
  /\ attempts = {}
  /\ text = UnableToDecrypt

\* C12: decrypting for display requires a passphrase. With an empty
\* passphrase decryptNote rejects an encrypted entry with the
\* passphrase-required error, whatever its enc holds (nothing is decoded),
\* and the display starts no decryption; for an entry that is not
\* encrypted decryptNote returns the note, whatever the passphrase.
C12_DecryptRequiresPassphrase ==
  /\ \A e \in Range(entries) :
       /\ IsEncrypted(e) => decryptNote(e, <<>>) = PassphraseRequiredToDecrypt
       /\ ~ IsEncrypted(e) =>
            \A p \in TypedPassphrases : decryptNote(e, p) = NoteOf(e)
  /\ (BodyMounted /\ IsEncrypted(selected[1]) /\ passphrase = <<>>)
       => /\ unhandled = PassphraseRequiredToDecrypt
          /\ \A a \in attempts : ~ a.live

\* a malformed entry is displayed after the passphrase was emptied: the
\* error was raised and nothing is being decrypted
C12_Witness ==
  /\ BodyMounted
  /\ selected[1] \in MalformedEntries
  /\ passphrase = <<>>
  /\ unhandled = PassphraseRequiredToDecrypt
  /\ attempts # {}
  /\ \A a \in attempts : ~ a.live

\* C13: a failed save persists nothing. A call addEntry(entry, true) that
\* throws for want of a passphrase, or whose encryptText rejects, leaves the
\* entries and localStorage as they are; a call that completes leaves the
\* store either untouched or extended by the one complete encrypted entry,
\* and no entry of the store is a partly built one.
Untouched == entries' = entries /\ localStorage' = localStorage

CompleteEntry(e) ==
  IF "encrypted" \in DOMAIN e
  THEN /\ e.encrypted = TRUE
       /\ NoteOf(e) = Undefined
       /\ "enc" \in DOMAIN e
       /\ DOMAIN e.enc = {"iv", "salt", "ciphertext"}
       /\ \A f \in DOMAIN e.enc : e.enc[f] # <<>>
  ELSE "enc" \notin DOMAIN e /\ NoteOf(e) # Undefined

C13_FailedSavePersistsNothing ==
  [][/\ (editor.encrypted /\ passphrase = <<>> /\ calls' = calls + 1) => Untouched
     /\ \A s \in saves :
          (saves' = saves \ {s} /\ path' = path)
            => /\ (unhandled' = EncryptionFailed /\ unhandled # EncryptionFailed)
                    => Untouched
               /\ \/ Untouched
                  \/ /\ entries' = Append(s.list, encryptedPayload(s.entry, s.pass, s.iv, s.salt))
                     /\ StoredList' = JsonList(entries')
     /\ \A e \in Range(entries') \cup Range(StoredList') : CompleteEntry(e)]_vars

\* encryptText has rejected for the first save: nothing is stored, the
\* draft is kept
C13_Witness ==
  /\ unhandled = EncryptionFailed
  /\ calls = 1
  /\ saves = {}
  /\ entries = <<>>
  /\ "journalEntries" \notin DOMAIN localStorage
  /\ editor = [note |-> <<97>>, encrypted |-> TRUE, saving |-> FALSE]

\* C14: an encryption failure blocks the save with an explicit message.
\* When 'Save entry' is pressed with encryption on and no passphrase, no
\* entry is added and the editor shows something it did not show before
\* the press.
C14_SaveFailureShown ==
  [][(JournalMounted /\ editor.encrypted /\ passphrase = <<>> /\ calls' = calls + 1)
       => Untouched /\ EditorView(editor') # EditorView(editor)]_vars

\* C15: key derivation validates its input. A salt that is not of 16 bytes
\* makes deriveKey fail, so decryptText on a stored entry whose salt
\* decodes to another length fails whatever the passphrase, and the
\* display of such an entry never shows a decrypted text.
WrongLengthSalt(e) ==
  /\ "enc" \in DOMAIN e
  /\ b64ToBuf(e.enc.salt) # Failure
  /\ Len(b64ToBuf(e.enc.salt)) # SaltLen

C15_DeriveKeyValidates ==
  /\ \A e \in Range(entries), p \in TypedPassphrases \ {<<>>} :
       WrongLengthSalt(e) => decryptText(p, e.enc) = Failure
  /\ (BodyMounted /\ WrongLengthSalt(selected[1]))
       => text \in {Decrypting, UnableToDecrypt}

\* C16: entry identifiers are unique. No two entries of the store, in
\* memory or in localStorage, have the same id, also when two saves are
\* made without the clock advancing.
UniqueIds(list) ==
  \A i, j \in 1..Len(list) : i # j => list[i].id # list[j].id

C16_UniqueIds == UniqueIds(entries) /\ UniqueIds(StoredList)

\* C17 (as claimed): no two encrypted entries of the store share a nonce.
EncryptedPairs ==
  {<<i, j>> \in (1..Len(entries)) \X (1..Len(entries)) :
     i < j /\ IsEncrypted(entries[i]) /\ IsEncrypted(entries[j])}

C17_NoncesDiffer ==
  \A ij \in EncryptedPairs : entries[ij[1]].enc.iv # entries[ij[2]].enc.iv

\* C17 (amended): every encryption uses its own draw of 12 bytes from the
\* random source as the nonce. The entry a save appends carries the iv
\* drawn for that save, and whenever that draw differs from the nonce of a
\* stored entry, the new entry differs from it in nonce and in ciphertext,
\* also for the same passphrase and plaintext; two entries share a nonce
\* only when the random source returned the same bytes twice.
Appended(s) == entries'[Len(entries')]

Completes(s) ==
  /\ s \in saves
  /\ saves' = saves \ {s}
  /\ Len(entries') = Len(s.list) + 1

C17_OwnNoncePerEncryption ==
  [][\A s \in saves :
       Completes(s)
         => /\ Len(s.iv) = IvLen
            /\ Appended(s).enc.iv = bufToB64(s.iv)
            /\ \A e \in Range(s.list) :
                 (IsEncrypted(e) /\ b64ToBuf(e.enc.iv) # s.iv)
                   => /\ e.enc.iv # Appended(s).enc.iv
                      /\ e.enc.ciphertext # Appended(s).enc.ciphertext]_vars

\* two entries saved from the same note under the same passphrase with the
\* same salt and different nonces: their ciphertexts differ
C17_Witness ==
  /\ Len(entries) = 2
  /\ passphrase # <<>>
  /\ \A i \in 1..2 : IsEncrypted(entries[i]) /\ decryptNote(entries[i], passphrase) = <<97>>
  /\ entries[1].enc.salt = entries[2].enc.salt
  /\ entries[1].enc.iv # entries[2].enc.iv
  /\ entries[1].enc.ciphertext # entries[2].enc.ciphertext

\* C18 (as claimed): two entries encrypted with the same passphrase carry
\* non-equal salts.
C18_SaltsDiffer ==
  \A ij \in EncryptedPairs :
    (passphrase # <<>>
       /\ decryptNote(entries[ij[1]], passphrase) # UnableToDecrypt
       /\ decryptNote(entries[ij[2]], passphrase) # UnableToDecrypt)
      => entries[ij[1]].enc.salt # entries[ij[2]].enc.salt

\* C18 (amended): every encryption uses its own draw of 16 bytes from the
\* random source as the salt. The entry a save appends carries the salt
\* drawn for that save, whatever the caller's entry and the store hold (the
\* entry of the caller has no salt), and whenever that draw differs from
\* the salt of a stored entry the two salts differ; two entries carry the
\* same salt only when the random source returned the same bytes twice.
C18_FreshSaltPerEncryption ==
  [][\A s \in saves :
       Completes(s)
         => /\ Len(s.salt) = SaltLen
            /\ Appended(s).enc.salt = bufToB64(s.salt)
            /\ "enc" \notin DOMAIN s.entry /\ "salt" \notin DOMAIN s.entry
            /\ \A e \in Range(s.list) :
                 (IsEncrypted(e) /\ b64ToBuf(e.enc.salt) # s.salt)
                   => e.enc.salt # Appended(s).enc.salt]_vars

\* two entries saved under the same passphrase with different salts
C18_Witness ==
  /\ Len(entries) = 2
  /\ passphrase # <<>>
  /\ \A i \in 1..2 : IsEncrypted(entries[i]) /\ decryptNote(entries[i], passphrase) = <<97>>
  /\ entries[1].enc.salt # entries[2].enc.salt
  /\ entries[1].enc.iv = entries[2].enc.iv

\* C19: record shape. Every entry of the store, in memory and in
\* localStorage, has a boolean encrypted flag; with the flag false it has a
\* note string and no enc, with the flag true it has no note and an enc
\* whose iv, salt and ciphertext are populated.
RecordShape(e) ==
  /\ "encrypted" \in DOMAIN e
  /\ e.encrypted \in BOOLEAN
  /\ e.encrypted = FALSE => (NoteOf(e) # Undefined /\ "enc" \notin DOMAIN e)
  /\ e.encrypted = TRUE =>
       /\ NoteOf(e) = Undefined
       /\ "enc" \in DOMAIN e
       /\ \A f \in {"iv", "salt", "ciphertext"} : f \in DOMAIN e.enc /\ e.enc[f] # <<>>

C19_RecordShape == \A e \in Range(entries) \cup Range(StoredList) : RecordShape(e)

\* C20: listing order. The list shown contains exactly the entries of the
\* store, each as often as the store holds it, the later date first,
\* whatever order they were appended in; the store is not changed by it.
Occurrences(e, list) == Cardinality({i \in 1..Len(list) : list[i] = e})

IsListingOf(shown, store) ==
  /\ \A e \in Range(shown) \cup Range(store) :
       Occurrences(e, shown) = Occurrences(e, store)
  /\ \A i, j \in 1..Len(shown) : i < j => shown[i].date >= shown[j].date

C20_ListingOrder ==
  [][(JournalMounted /\ path' = path /\ entries' # entries)
       => /\ IsListingOf(sorted(entries'), entries')
          /\ IsListingOf(JournalListCards(sorted(entries), sorted(entries')), entries')]_vars

\* does the body lack one of ciphertext, iv and salt?
LacksCipherFields(body) ==
  Falsy(body.ciphertext) \/ Falsy(body.iv) \/ Falsy(body.salt)

\* C21: the backend stores encrypted journal entries only. Every row of
\* journal_entries is an encrypted record with a non-empty ciphertext, iv
\* and salt and without a note or a passphrase; a POST /journal that lacks
\* one of ciphertext, iv and salt is answered 400 and never reaches the
\* INSERT, whatever its encrypted field is.
C21_EncryptedOnly ==
  /\ \A row \in db.journal_entries :
       /\ row.encrypted = 1
       /\ ~ Falsy(row.ciphertext) /\ ~ Falsy(row.iv) /\ ~ Falsy(row.salt)
       /\ DOMAIN row \cap {"note", "passphrase"} = {}
  /\ \A i \in DOMAIN responses :
       (responses[i].route = "POST /journal" /\ LacksCipherFields(responses[i].body))
         => responses[i].status = 400
  /\ \A r \in requests :
       r.route = "POST /journal" => ~ LacksCipherFields(r.body)

\* the check-in rows of the user and day that a body names
RowsOfDay(table, body) ==
  {row \in table : row.user_id = body.user_id /\ row.date_key = DateOf(body.date_key)}

LacksCheckInFields(body) ==
  body.user_id = Undefined \/ body.date_key = Undefined \/ body.mood = Undefined

Current(a) ==
  BodyMounted /\ a.entry = selected[1] /\ a.pass = passphrase

\* C23: decryption results are matched to the current request. When an
\* attempt settles that was started for another entry or under another
\* passphrase than the ones in effect, its result is not shown; and after
\* every step, when an encrypted entry is displayed and no attempt is left
\* in flight, the text displayed is the result of decrypting that entry with
\* the passphrase in effect.
C23_ResultsMatchRequest ==
  [][/\ \A a \in attempts :
          (/\ BodyMounted /\ BodyMounted' /\ passphrase' = passphrase
           /\ attempts' = attempts \ {a}
           /\ ~ Current(a))
            => text' = text
     /\ (BodyMounted' /\ IsEncrypted(selected'[1]) /\ attempts' = {})
          => text' = decryptNote(selected'[1], passphrase')
    ]_vars

\* C24: the durable store mirrors the in-memory one. A step that changes
\* the entries in memory or the stored list leaves the stored list equal to
\* the entries in memory, fields of value undefined left out; and a step
\* that constructs the entries anew from the store (a reload) gives exactly
\* the entries that were in memory before it.
C24_StoreMirrorsMemory ==
  [][/\ (entries' # entries \/ StoredList' # StoredList)
          => StoredList' = JsonList(entries')
     /\ (entries' # entries /\ localStorage' = localStorage)
          => entries' = JsonList(entries)
    ]_vars

\* after two saves, one of them encrypted, and a reload: both entries are in
\* memory as the store holds them, the encrypted one without a note field
C24_Witness ==
  /\ Len(entries) = 2
  /\ saves = {}
  /\ \E i \in 1..2 : IsEncrypted(entries[i]) /\ "note" \notin DOMAIN entries[i]
  /\ StoredList = entries

\* C25: the passphrase is read once per save. The entry that a save appends
\* decrypts under the passphrase that was in effect when addEntry was
\* invoked, and when the passphrase in effect at the end of the save is
\* another (non-empty) one, the entry does not decrypt under it.
C25_PassphraseReadOnce ==
  [][\A s \in saves :
       Completes(s)
         => /\ decryptNote(Appended(s), s.pass) = NoteOrEmpty(s.entry)
            /\ (passphrase' # <<>> /\ passphrase' # s.pass)
                 => decryptNote(Appended(s), passphrase') = UnableToDecrypt]_vars

\* the draft of the editor: what the user has typed and toggled
Draft(ed) == [note |-> ed.note, encrypted |-> ed.encrypted]

\* a press of 'Save entry'
Pressed == JournalMounted /\ calls' = calls + 1

\* the save s settles
Settles(s) == s \in saves /\ saves' = saves \ {s} /\ path' = path

\* what a step shows when s resolves: its entry is appended to the list it
\* started from and no error is raised
AsResolved(s) ==
  /\ entries' = Append(s.list, encryptedPayload(s.entry, s.pass, s.iv, s.salt))
  /\ unhandled' = unhandled

\* what a step shows when s rejects: the entries are as before and the
\* error is raised
AsRejected(s) == entries' = entries /\ unhandled' = EncryptionFailed

\* C26: the save lifecycle of the journal editor. 'Save entry' is pressed
\* only while saving is false; after the press saving is true exactly while
\* addEntry is awaiting, and an addEntry that ended within the press has
\* either appended the entry and reset the draft or thrown and kept it;
\* when the save of the mounted editor resolves the draft is reset and
\* saving is false, when it rejects the draft is kept and saving is false
\* (a step that shows both, the list and the error being what they were,
\* is either); the save of an editor no longer mounted leaves the mounted
\* one alone; and saving, once true, becomes false again.
C26_SaveLifecycle ==
  /\ [][/\ Pressed =>
             /\ ~ editor.saving
             /\ editor'.saving = (\E s \in saves' \ saves : s.owner)
             /\ ~ editor'.saving =>
                  \/ /\ editor' = EmptyDraft
                     /\ Len(entries') = Len(entries) + 1
                  \/ /\ Draft(editor') = Draft(editor)
                     /\ entries' = entries
                     /\ unhandled' = PassphraseRequiredForEncryption
        /\ \A s \in saves :
             /\ (Settles(s) /\ s.owner)
                  => /\ ~ editor'.saving
                     /\ (AsResolved(s) /\ ~ AsRejected(s)) => editor' = EmptyDraft
                     /\ (AsRejected(s) /\ ~ AsResolved(s))
                          => Draft(editor') = Draft(editor)
                     /\ AsResolved(s) \/ AsRejected(s)
             /\ (Settles(s) /\ ~ s.owner) => editor' = editor
       ]_vars
  /\ (editor.saving ~> ~ editor.saving)

\* a save of the mounted editor has been rejected by encryptText: the draft
\* typed is still there and the button is enabled again
C26_Witness ==
  /\ JournalMounted
  /\ unhandled = EncryptionFailed
  /\ saves = {}
  /\ entries = <<>>
  /\ Draft(editor) = [note |-> <<97>>, encrypted |-> TRUE]
  /\ ~ editor.saving

\* C27: the router is total. For every hash App renders exactly one thing
\* below the Navbar: the page of a known route or the 404 page, also for a
\* known path written with a slash at its end.
C27_RouterTotal == Cardinality(rendered) = 1

\* the posts of a thread
PostsOf(t) == {p \in db.posts : p.thread_id = t.id}

\* C28: the reply counter is consistent. In every reachable state of the
\* backend each thread's replies_count is the number of rows of posts with
\* its thread_id.
C28_RepliesCounted ==
  \A t \in db.threads : t.replies_count = Cardinality(PostsOf(t))

\* the push calls whose toast is in the list
Shown == {toasts[i].n : i \in DOMAIN toasts}

\* C29: toast lifecycle. The step of a timer removes the toast of the same
\* push call and no other toast; when no timer is left the list is empty;
\* every toast in the list is eventually removed.
C29_ToastLifecycle ==
  /\ [][(timers # <<>> /\ timers' = Tail(timers))
          => /\ Head(timers).n \in Shown
             /\ Shown' = Shown \ {Head(timers).n}]_vars
  /\ [](timers = <<>> => toasts = <<>>)
  /\ \A n \in 1..MaxPushes : (n \in Shown) ~> (n \notin Shown)

\* what storage.get('onboarding') reads, <<>> when there is none
StoredOnboarding(ls) ==
  IF "onboarding" \in DOMAIN ls THEN <<ls["onboarding"]>> ELSE <<>>

\* C30: onboarding step machine. current stays within 0..2; a step that
\* raises current is a submit on step 0 or 1 and does nothing but raise it
\* by one; the stored preferences and the onComplete calls change only by a
\* submit on the last step, which stores the form and calls onComplete with
\* it once; so there are as many onComplete calls as submits on the last
\* step.
C30_StepMachine ==
  /\ [](current \in 0..2 /\ Len(completed) = finishes)
  /\ [][/\ current' > current
             => /\ current' = current + 1
                /\ form' = form
                /\ completed' = completed
                /\ localStorage' = localStorage
        /\ finishes' # finishes
             => /\ current = 2
                /\ completed' = Append(completed, form)
                /\ StoredOnboarding(localStorage') = <<form>>
        /\ (completed' # completed
              \/ StoredOnboarding(localStorage') # StoredOnboarding(localStorage))
             => /\ current = 2
                /\ finishes' = finishes + 1]_vars

\* C30 witness: the onboarding was completed on the last step with a
\* nickname, a baseline and a preference switched off
C30_Witness ==
  /\ done
  /\ current = 2
  /\ finishes = 1
  /\ completed = <<form>>
  /\ StoredOnboarding(localStorage) = <<form>>
  /\ form.nickname = <<97>>
  /\ form.baseline = <<108, 111, 119>>
  /\ ~ form.reminders

====
